---- MODULE Spec2Model ----
\* rustmerger: the streaming merge/deduplication engine (src/src/core.rs), its
\* checkpoint (src/src/progress.rs, src/src/app_state.rs), the interrupt
\* handler (src/src/signal_handler.rs, src/src/main.rs) and the library file
\* processor (src/src/processing.rs), as one state machine.
\*
\* Text is modelled at byte level.  A file is a sequence of bytes (0..255); the
\* decoded content is the sequence of UTF-8 bytes encoding_rs produces, and a
\* line is a sequence of UTF-8 bytes.  The byte alphabet of the model's files is
\*   97 'a', 98 'b', 32 ' ', 10 '\n', 13 '\r',
\*   233 (e-acute in windows-1252, not valid UTF-8 on its own),
\*   195 169 (e-acute in UTF-8).
EXTENDS Integers, Sequences, FiniteSets, TLC

\* ---------------------------------------------------------------------------
\* Bounds of the model
\* ---------------------------------------------------------------------------
\* number of paths of the input list
NumFiles == 2
\* capacity of the producer/Aggregator channel (CHANNEL_SIZE, core.rs:23, is
\* 1000; the model bounds it so that a full channel is reachable)
ChannelCap == 1
\* number of interrupt signals delivered during one run
MaxInterrupts == 1
\* number of FileProcessor::process_file calls made on one Progress
MaxCalls == 2
\* largest chunk_size process_large_file is run with on its own
MaxBatch == 2
\* length of optimized_files when the file loop is run on its own
PoolFiles == 5
\* most paths in the processed_files of a Progress saved and loaded on its own
MaxRecorded == 2
\* most (path, size) pairs in a list given to the order optimizer on its own
MaxListed == 3

\* ---------------------------------------------------------------------------
\* Program constants
\* ---------------------------------------------------------------------------
CHUNK_SIZE == 10485760
PARALLEL_FILES == 4
DETECTION_SAMPLE_SIZE == 8192
MAX_DETECTION_FILE_SIZE == 104857600
SIZE_OF_STRING == 24

UTF_8 == "UTF-8"
WINDOWS_1252 == "windows-1252"

\* ---------------------------------------------------------------------------
\* Sequence helpers
\* ---------------------------------------------------------------------------
Range(s) == {s[i] : i \in 1..Len(s)}

Min(a, b) == IF a <= b THEN a ELSE b

\* the permutations of a finite set, as sequences
RECURSIVE Perms(_)
Perms(S) ==
    IF S = {} THEN {<<>>}
    ELSE UNION {{<<x>> \o p : p \in Perms(S \ {x})} : x \in S}

\* ---------------------------------------------------------------------------
\* UTF-8 and windows-1252 (encoding_rs::Encoding::decode, str::from_utf8)
\* ---------------------------------------------------------------------------
IsCont(b) == b >= 128 /\ b <= 191

\* the bytes of the UTF-8 sequence that the lead byte b starts, 0 when b
\* starts none (a continuation byte, C0, C1, F5..FF)
Utf8Width(b) ==
    IF b < 128 THEN 1
    ELSE IF b >= 194 /\ b <= 223 THEN 2
    ELSE IF b >= 224 /\ b <= 239 THEN 3
    ELSE IF b >= 240 /\ b <= 244 THEN 4
    ELSE 0

\* b2 may follow the lead byte b: no overlong form (E0, F0), no surrogate
\* (ED), nothing above U+10FFFF (F4)
SecondOk(b, b2) ==
    IF b = 224 THEN b2 >= 160 /\ b2 <= 191
    ELSE IF b = 237 THEN b2 >= 128 /\ b2 <= 159
    ELSE IF b = 240 THEN b2 >= 144 /\ b2 <= 191
    ELSE IF b = 244 THEN b2 >= 128 /\ b2 <= 143
    ELSE IsCont(b2)

\* length of the well-formed UTF-8 sequence at the head of s, 0 if there is none
Utf8SeqLen(s) ==
    IF s = <<>> THEN 0
    ELSE LET n == Utf8Width(s[1])
         IN  IF n <= 1 THEN n
             ELSE IF /\ Len(s) >= n
                     /\ SecondOk(s[1], s[2])
                     /\ \A i \in 3..n : IsCont(s[i])
                  THEN n
             ELSE 0

\* String::from_utf8(..).is_ok(): every byte that is no continuation byte
\* starts a well-formed sequence, and every continuation byte lies in the
\* sequence that the nearest such byte before it starts
Utf8Valid(s) ==
    LET SeqAt(j) == Utf8SeqLen(SubSeq(s, j, Min(j + 3, Len(s))))
    IN  \A i \in 1..Len(s) :
           IF IsCont(s[i])
           THEN \E j \in 1..(i - 1) : i - j <= 3 /\ ~IsCont(s[j]) /\ SeqAt(j) > i - j
           ELSE SeqAt(i) > 0

REPLACEMENT == <<239, 191, 189>>

\* number of bytes one U+FFFD replaces at the head of an ill-formed s: the
\* longest prefix of s that begins a well-formed sequence, one byte when
\* there is none
BadPrefixLen(s) ==
    LET n == Utf8Width(s[1])
    IN  IF n < 2 \/ Len(s) < 2 \/ ~SecondOk(s[1], s[2]) THEN 1
        ELSE IF n = 4 /\ Len(s) >= 3 /\ IsCont(s[3]) THEN 3
        ELSE 2

\* UTF_8.decode without its byte-order-mark handling
RECURSIVE DecodeUtf8(_)
DecodeUtf8(s) ==
    IF s = <<>> THEN <<>>
    ELSE LET k == Utf8SeqLen(s)
         IN  IF k > 0
             THEN SubSeq(s, 1, k) \o DecodeUtf8(SubSeq(s, k + 1, Len(s)))
             ELSE REPLACEMENT \o DecodeUtf8(SubSeq(s, BadPrefixLen(s) + 1, Len(s)))

\* the UTF-8 bytes of the code point c
Utf8Encode(c) ==
    IF c < 128 THEN <<c>>
    ELSE IF c < 2048 THEN <<192 + (c \div 64), 128 + (c % 64)>>
    ELSE IF c < 65536
         THEN <<224 + (c \div 4096), 128 + ((c \div 64) % 64), 128 + (c % 64)>>
    ELSE <<240 + (c \div 262144), 128 + ((c \div 4096) % 64),
           128 + ((c \div 64) % 64), 128 + (c % 64)>>

\* the code point of the character at the head of the UTF-8 text s
HeadChar(s) ==
    LET k == Utf8SeqLen(s)
    IN  IF k = 1 THEN s[1]
        ELSE IF k = 2 THEN (s[1] - 192) * 64 + (s[2] - 128)
        ELSE IF k = 3 THEN (s[1] - 224) * 4096 + (s[2] - 128) * 64 + (s[3] - 128)
        ELSE (s[1] - 240) * 262144 + (s[2] - 128) * 4096 + (s[3] - 128) * 64
                 + (s[4] - 128)

\* the code points windows-1252 gives the bytes 0x80..0x9F
Cp1252High ==
    <<8364, 129, 8218, 402, 8222, 8230, 8224, 8225, 710, 8240, 352, 8249, 338,
      141, 381, 143, 144, 8216, 8217, 8220, 8221, 8226, 8211, 8212, 732, 8482,
      353, 8250, 339, 157, 382, 376>>

\* WINDOWS_1252.decode of one byte, as UTF-8
Cp1252Byte(b) ==
    IF b >= 128 /\ b <= 159 THEN Utf8Encode(Cp1252High[b - 127])
    ELSE Utf8Encode(b)

RECURSIVE DecodeCp1252(_)
DecodeCp1252(s) ==
    IF s = <<>> THEN <<>> ELSE Cp1252Byte(Head(s)) \o DecodeCp1252(Tail(s))

\* a UTF-16 code unit of two bytes, little or big endian
Unit(b1, b2, le) == IF le THEN b1 + 256 * b2 ELSE 256 * b1 + b2

IsHighSurrogate(u) == u >= 55296 /\ u <= 56319
IsLowSurrogate(u) == u >= 56320 /\ u <= 57343

\* a high surrogate heads s and its low surrogate follows
PairAtHead(s, le) ==
    /\ Len(s) >= 4
    /\ IsHighSurrogate(Unit(s[1], s[2], le))
    /\ IsLowSurrogate(Unit(s[3], s[4], le))

\* UTF_16LE.decode / UTF_16BE.decode without byte-order-mark handling: a
\* surrogate without its partner and a byte left over at the end become U+FFFD
RECURSIVE DecodeUtf16(_, _)
DecodeUtf16(s, le) ==
    IF s = <<>> THEN <<>>
    ELSE IF Len(s) = 1 THEN REPLACEMENT
    ELSE LET u == Unit(s[1], s[2], le)
         IN  IF PairAtHead(s, le)
             THEN Utf8Encode(65536 + (u - 55296) * 1024
                                   + (Unit(s[3], s[4], le) - 56320))
                      \o DecodeUtf16(SubSeq(s, 5, Len(s)), le)
             ELSE IF IsHighSurrogate(u) /\ Len(s) <= 3 THEN REPLACEMENT
             ELSE IF IsHighSurrogate(u) \/ IsLowSurrogate(u)
                  THEN REPLACEMENT \o DecodeUtf16(SubSeq(s, 3, Len(s)), le)
             ELSE Utf8Encode(u) \o DecodeUtf16(SubSeq(s, 3, Len(s)), le)

RECURSIVE Utf16Valid(_, _)
Utf16Valid(s, le) ==
    IF s = <<>> THEN TRUE
    ELSE IF Len(s) = 1 THEN FALSE
    ELSE LET u == Unit(s[1], s[2], le)
         IN  IF PairAtHead(s, le) THEN Utf16Valid(SubSeq(s, 5, Len(s)), le)
             ELSE /\ ~IsHighSurrogate(u)
                  /\ ~IsLowSurrogate(u)
                  /\ Utf16Valid(SubSeq(s, 3, Len(s)), le)

HasUtf8Bom(s) == Len(s) >= 3 /\ SubSeq(s, 1, 3) = <<239, 187, 191>>
HasUtf16LeBom(s) == Len(s) >= 2 /\ SubSeq(s, 1, 2) = <<255, 254>>
HasUtf16BeBom(s) == Len(s) >= 2 /\ SubSeq(s, 1, 2) = <<254, 255>>

\* source_encoding.decode(&file_contents): the converted text (a byte order
\* mark of UTF-8 or UTF-16 selects that encoding and is removed, whatever the
\* source encoding)
Decode(bytes, enc) ==
    IF HasUtf8Bom(bytes) THEN DecodeUtf8(SubSeq(bytes, 4, Len(bytes)))
    ELSE IF HasUtf16LeBom(bytes) THEN DecodeUtf16(SubSeq(bytes, 3, Len(bytes)), TRUE)
    ELSE IF HasUtf16BeBom(bytes) THEN DecodeUtf16(SubSeq(bytes, 3, Len(bytes)), FALSE)
    ELSE IF enc = UTF_8 THEN DecodeUtf8(bytes)
    ELSE DecodeCp1252(bytes)

\* had_errors of source_encoding.decode
HadErrors(bytes, enc) ==
    IF HasUtf8Bom(bytes) THEN ~Utf8Valid(SubSeq(bytes, 4, Len(bytes)))
    ELSE IF HasUtf16LeBom(bytes) THEN ~Utf16Valid(SubSeq(bytes, 3, Len(bytes)), TRUE)
    ELSE IF HasUtf16BeBom(bytes) THEN ~Utf16Valid(SubSeq(bytes, 3, Len(bytes)), FALSE)
    ELSE IF enc = UTF_8 THEN ~Utf8Valid(bytes)
    ELSE FALSE

\* ---------------------------------------------------------------------------
\* Encoding detection (encoding/detector.rs, encoding/mod.rs)
\* ---------------------------------------------------------------------------
read_sample(bytes) == SubSeq(bytes, 1, Min(Len(bytes), DETECTION_SAMPLE_SIZE))

\* the characters of a UTF-8 text start at its non-continuation bytes
CharStarts(text) == {i \in 1..Len(text) : ~IsCont(text[i])}

\* the code points of the characters of a UTF-8 text
CharsOf(text) == {HeadChar(SubSeq(text, i, Len(text))) : i \in CharStarts(text)}

IsAsciiAlnum(c) == (c >= 48 /\ c <= 57) \/ (c >= 65 /\ c <= 90) \/ (c >= 97 /\ c <= 122)
IsAsciiPunct(c) ==
    (c >= 33 /\ c <= 47) \/ (c >= 58 /\ c <= 64) \/ (c >= 91 /\ c <= 96) \/ (c >= 123 /\ c <= 126)
\* char::is_whitespace: the code points with the property White_Space
IsWhite(c) ==
    \/ c \in {9, 10, 11, 12, 13, 32, 133, 160, 5760, 8232, 8233, 8239, 8287, 12288}
    \/ (c >= 8192 /\ c <= 8202)

\* a validation that does not count the null characters
validate_without_null_check(sample, enc) ==
    LET text == Decode(sample, enc)
    IN  /\ ~HadErrors(sample, enc)
        /\ \E c \in CharsOf(text) : IsAsciiAlnum(c) \/ IsAsciiPunct(c) \/ IsWhite(c)

validate_encoding_with_sample(sample, enc) ==
    LET text == Decode(sample, enc)
        total_chars == Cardinality(CharStarts(text))
        null_count == Cardinality({i \in 1..Len(text) : text[i] = 0})
    IN  /\ ~HadErrors(sample, enc)
        /\ ~(total_chars > 0 /\ null_count * 20 > total_chars)
        /\ \E c \in CharsOf(text) : IsAsciiAlnum(c) \/ IsAsciiPunct(c) \/ IsWhite(c)

heuristic_detection(sample) ==
    IF sample = <<>> THEN UTF_8
    ELSE IF HasUtf8Bom(sample) THEN UTF_8
    ELSE IF Utf8Valid(sample) THEN UTF_8
    ELSE IF \E i \in 1..Len(sample) : sample[i] > 127 THEN WINDOWS_1252
    ELSE UTF_8

\* detect_file reads a sample (detector.rs:51) of a file of len bytes
NeedsSample(len) == ~(len > MAX_DETECTION_FILE_SIZE) /\ len # 0

\* EncodingDetector::detect_file (detector.rs:34-63) on a file of len bytes
\* that begins with the bytes of head, every operation on it succeeding; guess
\* is what chardetng answers for the sample
detect_file_at(len, head, guess) ==
    IF len > MAX_DETECTION_FILE_SIZE THEN WINDOWS_1252
    ELSE IF len = 0 THEN UTF_8
    ELSE LET sample == read_sample(head)
         IN  IF validate_encoding_with_sample(sample, guess) THEN guess
             ELSE heuristic_detection(sample)

\* EncodingDetector::detect_file on a readable file of the given bytes
detect_file(bytes, guess) == detect_file_at(Len(bytes), bytes, guess)

\* ---------------------------------------------------------------------------
\* Lines (core.rs: process_large_file, count_lines_with_encoding)
\* ---------------------------------------------------------------------------
NL == 10

\* reader.read_until(b'\n', &mut buffer): the bytes up to and including the
\* first newline, or all the remaining bytes when there is none
read_until(text) ==
    IF \E i \in 1..Len(text) : text[i] = NL
    THEN SubSeq(text, 1, CHOOSE i \in 1..Len(text) :
                             text[i] = NL /\ \A j \in 1..(i - 1) : text[j] # NL)
    ELSE text

\* the position at which the last character of the non-empty UTF-8 text s starts
LastCharStart(s) == CHOOSE i \in CharStarts(s) : \A j \in CharStarts(s) : j <= i

\* str::trim_start, str::trim_end and str::trim on a UTF-8 text
RECURSIVE TrimStart(_)
TrimStart(s) ==
    IF s # <<>> /\ IsWhite(HeadChar(s))
    THEN TrimStart(SubSeq(s, Utf8SeqLen(s) + 1, Len(s)))
    ELSE s
RECURSIVE TrimEnd(_)
TrimEnd(s) ==
    IF s # <<>> /\ IsWhite(HeadChar(SubSeq(s, LastCharStart(s), Len(s))))
    THEN TrimEnd(SubSeq(s, 1, LastCharStart(s) - 1))
    ELSE s
Trim(s) == TrimEnd(TrimStart(s))

\* core.rs:224-229: the lines one read_until buffer adds to current_set
LineOfBuffer(buffer) ==
    LET line == SubSeq(buffer, 1, Len(buffer) - 1)
    IN  IF Utf8Valid(line) /\ Trim(line) # <<>> THEN {Trim(line)} ELSE {}

\* count_lines_with_encoding: one per non-empty read_until buffer
RECURSIVE count_lines(_)
count_lines(text) ==
    IF text = <<>> THEN 0
    ELSE 1 + count_lines(SubSeq(text, Len(read_until(text)) + 1, Len(text)))

\* ---------------------------------------------------------------------------
\* Order optimizer and Batch Sizer (core.rs)
\* ---------------------------------------------------------------------------
\* sorted_files.sort_by(|a, b| b.1.cmp(&a.1)): a stable sort, largest first
RECURSIVE InsertDesc(_, _)
InsertDesc(x, sorted) ==
    IF sorted = <<>> THEN <<x>>
    ELSE IF Head(sorted)[2] >= x[2] THEN <<Head(sorted)>> \o InsertDesc(x, Tail(sorted))
    ELSE <<x>> \o sorted

RECURSIVE SortDesc(_, _)
SortDesc(s, acc) ==
    IF s = <<>> THEN acc ELSE SortDesc(Tail(s), InsertDesc(Head(s), acc))

SMALL_LIMIT == 104857600
MEDIUM_LIMIT == 1048576000

PathsOf(pairs) == [i \in 1..Len(pairs) |-> pairs[i][1]]

\* an optimizer that fills the three groups from the list as it was given
optimize_unsorted(files) ==
    LET IsSmall(p) == p[2] < SMALL_LIMIT
        IsMedium(p) == p[2] >= SMALL_LIMIT /\ p[2] < MEDIUM_LIMIT
        IsLarge(p) == p[2] >= MEDIUM_LIMIT
    IN  PathsOf(SelectSeq(files, IsLarge))
          \o PathsOf(SelectSeq(files, IsMedium))
          \o PathsOf(SelectSeq(files, IsSmall))

\* optimize_processing_order: files is a sequence of <<path, size>>
optimize_processing_order(files) ==
    LET sorted_files == SortDesc(files, <<>>)
        IsSmall(p) == p[2] < SMALL_LIMIT
        IsMedium(p) == p[2] >= SMALL_LIMIT /\ p[2] < MEDIUM_LIMIT
        IsLarge(p) == p[2] >= MEDIUM_LIMIT
    IN  PathsOf(SelectSeq(sorted_files, IsLarge))
          \o PathsOf(SelectSeq(sorted_files, IsMedium))
          \o PathsOf(SelectSeq(sorted_files, IsSmall))

\* core.rs:113-115, avail in KiB as sys_info::mem_info reports it
BatchSize(avail) == Min(((avail * 1024) \div 2) \div SIZE_OF_STRING, CHUNK_SIZE)

\* the values of mem_info().avail the model draws from
AvailChoices == {0, 1}

\* ---------------------------------------------------------------------------
\* The file system
\* ---------------------------------------------------------------------------
\* A file: its bytes, what chardetng guesses for it, and how I/O on it goes:
\*   "ok"       every operation succeeds
\*   "missing"  metadata and open fail
\*   "readerr"  metadata, open and the detection sample succeed; reading the
\*              file to its end fails part-way
FileKinds ==
    { [bytes |-> <<97, 10, 98, 10, 97, 10>>, guess |-> UTF_8, io |-> "ok"],
      [bytes |-> <<32, 98, 32, 13, 10, 10, 97, 98>>, guess |-> WINDOWS_1252, io |-> "ok"],
      [bytes |-> <<233, 10>>, guess |-> UTF_8, io |-> "ok"],
      [bytes |-> <<98, 195, 169>>, guess |-> UTF_8, io |-> "ok"],
      [bytes |-> <<160, 97, 160, 10, 240, 159, 152, 128>>, guess |-> WINDOWS_1252,
       io |-> "ok"],
      [bytes |-> <<97, 10>>, guess |-> UTF_8, io |-> "missing"],
      [bytes |-> <<97, 10>>, guess |-> UTF_8, io |-> "readerr"] }

Paths == 1..NumFiles

\* the input list, one path per line (read_input_files)
InputList == [i \in 1..NumFiles |-> i]

\* the name of an input file, as the input list spells it: f1, f2, ...
PathName(p) == <<102, 48 + p>>

\* the lines of the input list file, as line -> number of copies
ListFileLines ==
    [l \in {PathName(InputList[i]) : i \in DOMAIN InputList} |->
        Cardinality({i \in DOMAIN InputList : PathName(InputList[i]) = l})]

\* ---------------------------------------------------------------------------
\* Config (config.rs:11-17) and Config::validate (config.rs:111-163)
\* ---------------------------------------------------------------------------
\* threads; input_files and output_files are Some; the two paths are equal;
\* the output path is a bare file name, whose parent() is the empty path; a
\* file can be created in the output file's directory
ValidConfig ==
    [threads |-> 10, input_files |-> TRUE, output_files |-> TRUE,
     paths_equal |-> FALSE, bare_output |-> FALSE, dir_writable |-> TRUE]

\* the configurations a merge run is started with: a valid one, and one for
\* each check of Config::validate
ConfigKinds ==
    { ValidConfig,
      [ValidConfig EXCEPT !.threads = 0],
      [ValidConfig EXCEPT !.threads = 101],
      [ValidConfig EXCEPT !.input_files = FALSE],
      [ValidConfig EXCEPT !.output_files = FALSE],
      [ValidConfig EXCEPT !.paths_equal = TRUE],
      [ValidConfig EXCEPT !.bare_output = TRUE],
      [ValidConfig EXCEPT !.dir_writable = FALSE] }

\* config.rs:111-163, the checks in their order, on a configuration whose
\* input list file exists or not.  The parent() of a bare file name is the
\* empty path, which does not exist (config.rs:145-150); in a parent that
\* exists a temporary file is created (config.rs:153-162).
validate(c, input_exists) ==
    IF c.threads = 0 \/ c.threads > 100 THEN "InvalidThreadCount"
    ELSE IF ~c.input_files THEN "MissingInputFiles"
    ELSE IF ~input_exists THEN "InputFileNotFound"
    ELSE IF ~c.output_files THEN "MissingOutputFiles"
    ELSE IF c.paths_equal THEN "InputOutputPathsEqual"
    ELSE IF c.bare_output \/ ~c.dir_writable THEN "OutputDirectoryNotWritable"
    ELSE "Ok"

\* ---------------------------------------------------------------------------
\* State
\* ---------------------------------------------------------------------------
VARIABLES
    files,              \* the file system: path -> file
    ckptWrite,          \* how a save to the checkpoint file goes: "ok";
                        \* "open_fails", nothing is written (the file cannot
                        \* be opened, or its path is no valid UTF-8 and
                        \* to_string_pretty refuses it); "write_fails", the
                        \* write fails after the open"
    mode,               \* "merge" (handle_merge), "resume" (Commands::Resume),
                        \* "lib" (FileProcessor used on a Progress)
    loaded,             \* processed_files of the checkpoint the run loaded
    config,             \* the Config the merge command loaded
    ckpt,               \* what Progress::load finds: "ok", "missing", "corrupt"
    errlog,             \* the file system: error.log can be opened for appending
    outWritable,        \* the file system: writes to the output file succeed
    list,               \* the input list: "ok" it can be read, "missing" it
                        \* cannot, "vanishes" it can when ProcessingCore::new
                        \* reads it and no longer when process does
    cmd_exit,           \* how the command ended: "none", "success", "failure"
    progress,           \* AppState.progress: the Progress record
    disk,               \* the checkpoint file on durable storage
    wlock,              \* the write lock of AppState.progress is held
    readers,            \* the tasks holding its read lock
    shutdown_requested, \* AppState.shutdown_requested
    pc,                 \* position of the main task
    exit,               \* how process returned
    idx,                \* index of the per-file loop of process
    detected,           \* process_single_file: detected_encoding
    line_count,         \* process_single_file: line_count
    save_ok,            \* process_single_file: result of progress.save()
    optimized,          \* merge_and_deduplicate: optimized_files
    midx,               \* merge_and_deduplicate: index of the file loop
    in_flight,          \* positions of optimized_files whose process_large_file
                        \* was called and has not returned
    batch_size,         \* merge_and_deduplicate: batch_size
    total_lines_processed,
    rbuf,               \* process_large_file: what the reader has left
    current_set,        \* process_large_file: current_set
    bytes_processed,    \* process_large_file: bytes_processed
    total_lines,        \* process_large_file: total_lines
    chan,               \* the mpsc channel: batches sent and not yet received
    tx_open,            \* a Sender of the channel is alive
    agg,                \* position of the writer_task (the Aggregator)
    final_set,          \* writer_task: final_set
    unique_count,       \* the shared AtomicUsize
    outExists,          \* the output file exists
    output,             \* the lines of the output file, with multiplicity
    sig,                \* position of the interrupt handler's task
    interrupts,         \* interrupt signals received
    handled,            \* handler tasks that ran to their end
    calls,              \* FileProcessor and FileUtils calls made
    fpfile,             \* FileProcessor::process_file: file
    trial,              \* a function run on its own: its name, its argument and
                        \* what it returned
    fullyRead,          \* history: paths read to their end without error
    touched,            \* history: paths opened by this run
    emitted,            \* history: paths whose batches were all sent
    sent,               \* history: every batch handed to the channel
    saveFailed          \* history: a checkpoint write failed

fsVars == <<files, ckptWrite, errlog, outWritable, mode, loaded, config, ckpt, list>>
progVars == <<progress, disk, wlock, readers, shutdown_requested>>
psfVars == <<detected, line_count, save_ok>>
plfVars == <<rbuf, current_set, bytes_processed, total_lines>>
mergeVars == <<optimized, midx, in_flight, batch_size, total_lines_processed>>
chanVars == <<chan, tx_open, agg, final_set, unique_count, sent>>
outVars == <<outExists, output>>
sigVars == <<sig, interrupts, handled>>
libVars == <<calls, fpfile, trial>>
histVars == <<fullyRead, touched, emitted, saveFailed>>
mainVars == <<pc, exit, cmd_exit, idx>>

vars == <<fsVars, progVars, psfVars, plfVars, mergeVars, chanVars, outVars,
          sigVars, libVars, histVars, mainVars>>

\* no function is run on its own
NoTrial == [fn |-> "none"]

\* the decoded text of a file, as create_converting_reader hands it out after
\* detect_or_default (EncodingStrategy::AutoDetect)
TextOf(f) == Decode(f.bytes, detect_file(f.bytes, f.guess))

RECURSIVE SumLines(_, _)
SumLines(fs, paths) ==
    IF paths = <<>> THEN 0
    ELSE count_lines(TextOf(fs[Head(paths)])) + SumLines(fs, Tail(paths))

\* what serde_json::to_string_pretty(&self) holds of the claims' fields
Snapshot(p) ==
    [exists |-> TRUE, parses |-> TRUE, processed_files |-> p.processed_files,
     current_position |-> p.current_position]

\* no checkpoint file
NoCheckpoint ==
    [exists |-> FALSE, parses |-> FALSE, processed_files |-> <<>>,
     current_position |-> 0]

\* a checkpoint file whose text serde_json::from_str rejects
CorruptCheckpoint ==
    [exists |-> TRUE, parses |-> FALSE, processed_files |-> <<>>,
     current_position |-> 0]

\* Progress::default() (progress.rs:66-77), as AppState::new installs it
DefaultProgress == [processed_files |-> <<>>, current_position |-> 0, save_path |-> FALSE]

\* Progress::load (progress.rs:92-100) of a checkpoint recording the first k
\* paths of the input list
LoadedProgress(fs, k) ==
    [processed_files |-> SubSeq(InputList, 1, k),
     current_position |-> SumLines(fs, SubSeq(InputList, 1, k)),
     save_path |-> TRUE]

Init ==
    /\ files \in [Paths -> FileKinds]
    /\ ckptWrite \in {"ok", "open_fails", "write_fails"}
    /\ mode \in {"merge", "resume", "lib"}
    /\ config \in (IF mode = "merge" THEN ConfigKinds ELSE {ValidConfig})
    /\ ckpt \in (IF mode = "resume" THEN {"ok", "missing", "corrupt"} ELSE {"ok"})
    /\ list \in (IF mode = "lib" THEN {"ok"} ELSE {"ok", "missing", "vanishes"})
    /\ errlog \in (IF mode = "lib" THEN {TRUE} ELSE BOOLEAN)
    /\ outWritable \in (IF mode = "lib" THEN {TRUE} ELSE BOOLEAN)
    /\ cmd_exit = "none"
    /\ \E k \in 0..NumFiles :
          /\ mode # "resume" => k = 0
          /\ ckpt # "ok" => k = 0
          /\ mode = "merge" => ckptWrite = "ok"
          /\ loaded = SubSeq(InputList, 1, k)
          /\ fullyRead = Range(SubSeq(InputList, 1, k))
          /\ \/ /\ mode = "merge"
                /\ progress = DefaultProgress
                /\ disk = NoCheckpoint
             \/ /\ mode = "resume"
                /\ ckpt = "ok"
                /\ progress = LoadedProgress(files, k)
                /\ disk = Snapshot(LoadedProgress(files, k))
             \/ /\ mode = "resume"
                /\ ckpt # "ok"
                /\ progress = DefaultProgress
                /\ disk = IF ckpt = "missing" THEN NoCheckpoint ELSE CorruptCheckpoint
             \/ /\ mode = "lib"
                /\ \E sp \in BOOLEAN : progress = [DefaultProgress EXCEPT !.save_path = sp]
                /\ disk = NoCheckpoint
    /\ wlock = FALSE
    /\ readers = {}
    /\ shutdown_requested = FALSE
    /\ pc = IF mode = "lib" THEN "lib" ELSE "cmd"
    /\ exit = "none"
    /\ idx = 1
    /\ detected = UTF_8
    /\ line_count = 0
    /\ save_ok = TRUE
    /\ optimized = <<>>
    /\ midx = 1
    /\ in_flight = {}
    /\ batch_size = 0
    /\ total_lines_processed = 0
    /\ rbuf = <<>>
    /\ current_set = {}
    /\ bytes_processed = 0
    /\ total_lines = 0
    /\ chan = <<>>
    /\ tx_open = FALSE
    /\ agg = "none"
    /\ final_set = {}
    /\ unique_count = 0
    /\ outExists = (config.paths_equal /\ list # "missing")
    /\ output = IF config.paths_equal /\ list # "missing" THEN ListFileLines ELSE <<>>
    /\ sig = "idle"
    /\ interrupts = 0
    /\ handled = 0
    /\ calls = 0
    /\ fpfile = 1
    /\ trial = NoTrial
    /\ touched = {}
    /\ emitted = {}
    /\ sent = {}
    /\ saveFailed = FALSE

\* ---------------------------------------------------------------------------
\* The commands (commands.rs:21-82 for merge, main.rs:107-160 for resume)
\* ---------------------------------------------------------------------------
\* commands.rs:25-62: the configuration is loaded and the two paths are taken
\* from it (no path is given on the command line); a path that is None ends
\* the command with an error; Config::validate is not called.
\* commands.rs:52-70: AppState::new, then the interrupt handler is installed
HandleMerge ==
    /\ pc = "cmd"
    /\ mode = "merge"
    /\ IF config.input_files /\ config.output_files
       THEN pc' = "core_new" /\ UNCHANGED cmd_exit
       ELSE pc' = "done" /\ cmd_exit' = "failure"
    /\ UNCHANGED <<exit, idx, fsVars, progVars, psfVars, plfVars, mergeVars, chanVars,
                   outVars, sigVars, libVars, histVars>>

\* main.rs:115, app_state.rs:30-39, progress.rs:92-100: Progress::load fails
\* on a file that cannot be read or parsed, `?` ends the command.
\* main.rs:124-140: the interrupt handler is installed
FromResume ==
    /\ pc = "cmd"
    /\ mode = "resume"
    /\ IF ckpt = "ok"
       THEN pc' = "core_new" /\ UNCHANGED cmd_exit
       ELSE pc' = "done" /\ cmd_exit' = "failure"
    /\ UNCHANGED <<exit, idx, fsVars, progVars, psfVars, plfVars, mergeVars, chanVars,
                   outVars, sigVars, libVars, histVars>>

\* ProcessingCore::new (core.rs:40-56; commands.rs:73-74, main.rs:146-152):
\* the input list is read to count its lines, `?` ends the command when it
\* cannot be read
CoreNew ==
    /\ pc = "core_new"
    /\ IF list # "missing"
       THEN pc' = "start" /\ UNCHANGED cmd_exit
       ELSE pc' = "done" /\ cmd_exit' = "failure"
    /\ UNCHANGED <<exit, idx, fsVars, progVars, psfVars, plfVars, mergeVars, chanVars,
                   outVars, sigVars, libVars, histVars>>

\* commands.rs:76-81: an Err of process is warned about, Ok(()) is returned
handle_merge_result(r) == "success"

\* main.rs:157-159: core.process().await? hands an Err on to main
resume_result(r) == IF r = "error" THEN "failure" ELSE "success"

\* the command returns to main, which ends the program
CommandReturn ==
    /\ pc = "done"
    /\ mode \in {"merge", "resume"}
    /\ cmd_exit = "none"
    /\ cmd_exit' = IF mode = "merge" THEN handle_merge_result(exit)
                   ELSE resume_result(exit)
    /\ UNCHANGED <<pc, exit, idx, fsVars, progVars, psfVars, plfVars, mergeVars,
                   chanVars, outVars, sigVars, libVars, histVars>>

\* ---------------------------------------------------------------------------
\* ProcessingCore::process (core.rs:58-103)
\* ---------------------------------------------------------------------------
\* the interrupt handler is installed (commands.rs:69-70, main.rs:124-140) and
\* main has not returned: the runtime still polls the tasks spawned on it
Alive == mode \in {"merge", "resume"} /\ pc # "cmd" /\ cmd_exit = "none"

\* log_error (core.rs:365-381) returns Ok: error.log was opened and the
\* message appended
log_error == errlog

\* core.rs:63-74: read_input_files; when it fails the error is logged and
\* process returns Ok(()) with nothing processed and nothing merged, or the
\* Err of log_error.  A list that has vanished is gone as the output file
\* too when the two paths are equal.
ReadInputFiles ==
    /\ pc = "start"
    /\ IF list = "vanishes"
       THEN /\ pc' = "done"
            /\ exit' = IF log_error THEN "no_list" ELSE "error"
            /\ outExists' = (outExists /\ ~config.paths_equal)
            /\ output' = IF config.paths_equal THEN <<>> ELSE output
       ELSE pc' = "loop" /\ UNCHANGED <<exit, outVars>>
    /\ idx' = 1
    /\ UNCHANGED <<cmd_exit, fsVars, progVars, psfVars, plfVars, mergeVars, chanVars,
                   sigVars, libVars, histVars>>

\* core.rs:76: the for loop is exhausted
LoopEnd ==
    /\ pc = "loop"
    /\ idx > Len(InputList)
    /\ pc' = "merge_start"
    /\ UNCHANGED <<exit, cmd_exit, idx, fsVars, progVars, psfVars, plfVars, mergeVars, chanVars,
                   outVars, sigVars, libVars, histVars>>

\* core.rs:77-80: should_shutdown() is true, process returns Ok(())
LoopShutdown ==
    /\ pc = "loop"
    /\ idx <= Len(InputList)
    /\ shutdown_requested
    /\ pc' = "done"
    /\ exit' = "shutdown"
    /\ UNCHANGED <<cmd_exit, idx, fsVars, progVars, psfVars, plfVars, mergeVars, chanVars,
                   outVars, sigVars, libVars, histVars>>

\* core.rs:77,82-85: should_shutdown() is false, process_single_file is called
LoopNext ==
    /\ pc = "loop"
    /\ idx <= Len(InputList)
    /\ ~shutdown_requested
    /\ pc' = "psf_check"
    /\ UNCHANGED <<exit, cmd_exit, idx, fsVars, progVars, psfVars, plfVars, mergeVars, chanVars,
                   outVars, sigVars, libVars, histVars>>

\* ---------------------------------------------------------------------------
\* ProcessingCore::process_single_file (core.rs:263-322)
\* ---------------------------------------------------------------------------
\* what process does when process_single_file returns (core.rs:83-93): after
\* Ok the loop goes on with the next file; an Err is logged and the loop goes
\* on, or `?` ends process with the Err of log_error
NextFile(ok) ==
    IF ok \/ log_error
    THEN /\ idx' = idx + 1
         /\ pc' = "loop"
         /\ UNCHANGED <<exit, cmd_exit>>
    ELSE /\ pc' = "done"
         /\ exit' = "error"
         /\ UNCHANGED <<idx, cmd_exit>>

\* core.rs:268-271: the flag is set, Err is returned, logged by process
PSF_Shutdown ==
    /\ pc = "psf_check"
    /\ shutdown_requested
    /\ NextFile(FALSE)
    /\ UNCHANGED <<fsVars, progVars, psfVars, plfVars, mergeVars, chanVars,
                   outVars, sigVars, libVars, histVars>>

\* core.rs:268: the flag is clear, the file is started
PSF_Begin ==
    /\ pc = "psf_check"
    /\ ~shutdown_requested
    /\ pc' = "psf_detect"
    /\ UNCHANGED <<exit, cmd_exit, idx, fsVars, progVars, psfVars, plfVars, mergeVars, chanVars,
                   outVars, sigVars, libVars, histVars>>

\* core.rs:278-290: detect_or_default; on Err the file is logged and Ok(())
\* returned, or the Err of log_error
PSF_Detect ==
    /\ pc = "psf_detect"
    /\ LET f == files[InputList[idx]]
       IN  IF f.io = "missing"
           THEN /\ NextFile(log_error)
                /\ UNCHANGED <<psfVars, touched>>
           ELSE /\ detected' = detect_file(f.bytes, f.guess)
                /\ touched' = touched \cup {InputList[idx]}
                /\ pc' = "psf_count"
                /\ UNCHANGED <<exit, cmd_exit, idx, line_count, save_ok>>
    /\ UNCHANGED <<fsVars, progVars, plfVars, mergeVars, chanVars, outVars,
                   sigVars, libVars, fullyRead, emitted, saveFailed>>

\* process_single_file going on to record a file whose read failed
PSF_CountIgnoringError ==
    /\ pc = "psf_count"
    /\ LET f == files[InputList[idx]]
       IN  /\ line_count' = IF f.io = "ok" THEN count_lines(Decode(f.bytes, detected)) ELSE 0
           /\ fullyRead' = IF f.io = "ok" THEN fullyRead \cup {InputList[idx]} ELSE fullyRead
    /\ pc' = "psf_lock"
    /\ UNCHANGED <<exit, cmd_exit, idx, detected, save_ok>>
    /\ UNCHANGED <<fsVars, progVars, plfVars, mergeVars, chanVars, outVars,
                   sigVars, libVars, touched, emitted, saveFailed>>

\* core.rs:293-304: count_lines_with_encoding reads the whole file; on Err the
\* file is logged and Ok(()) returned, or the Err of log_error
PSF_Count ==
    /\ pc = "psf_count"
    /\ LET f == files[InputList[idx]]
       IN  IF f.io # "ok"
           THEN /\ NextFile(log_error)
                /\ UNCHANGED <<psfVars, fullyRead>>
           ELSE /\ line_count' = count_lines(Decode(f.bytes, detected))
                /\ fullyRead' = fullyRead \cup {InputList[idx]}
                /\ pc' = "psf_lock"
                /\ UNCHANGED <<exit, cmd_exit, idx, detected, save_ok>>
    /\ UNCHANGED <<fsVars, progVars, plfVars, mergeVars, chanVars, outVars,
                   sigVars, libVars, touched, emitted, saveFailed>>

\* core.rs:307: app_state.progress.write().await
PSF_Lock ==
    /\ pc = "psf_lock"
    /\ ~wlock /\ readers = {}
    /\ wlock' = TRUE
    /\ pc' = "psf_push"
    /\ UNCHANGED <<exit, cmd_exit, idx, fsVars, progress, disk, readers, shutdown_requested,
                   psfVars, plfVars, mergeVars, chanVars, outVars, sigVars,
                   libVars, histVars>>

\* the processed_files a file-completion update leaves
PushFile(pf, path) == Append(pf, path)

\* core.rs:308: progress.processed_files.push(file.clone())
PSF_Push ==
    /\ pc = "psf_push"
    /\ progress' = [progress EXCEPT
                       !.processed_files = PushFile(@, InputList[idx])]
    /\ pc' = "psf_addpos"
    /\ UNCHANGED <<exit, cmd_exit, idx, fsVars, disk, wlock, readers, shutdown_requested,
                   psfVars, plfVars, mergeVars, chanVars, outVars, sigVars,
                   libVars, histVars>>

\* a file-completion update that counts the file instead of its lines
AddPositionOne(pos, n) == pos + 1

\* the current_position a file-completion update leaves
AddPosition(pos, n) == pos + n

\* core.rs:309: progress.current_position += line_count
PSF_AddPos ==
    /\ pc = "psf_addpos"
    /\ progress' = [progress EXCEPT
                       !.current_position = AddPosition(@, line_count)]
    /\ pc' = "psf_save"
    /\ UNCHANGED <<exit, cmd_exit, idx, fsVars, disk, wlock, readers, shutdown_requested,
                   psfVars, plfVars, mergeVars, chanVars, outVars, sigVars,
                   libVars, histVars>>

\* Progress::save (progress.rs:81-89): with a save path fs::write opens the
\* checkpoint file, which empties it, and writes the text.  When the open
\* fails the file stays as it was; when the write fails after the open the
\* file is left without a text serde_json can parse.  Without a save path
\* nothing is written.
Save(p, how) ==
    /\ disk' = IF ~p.save_path \/ how = "open_fails" THEN disk
               ELSE IF how = "ok" THEN Snapshot(p)
               ELSE CorruptCheckpoint
    /\ saveFailed' = (saveFailed \/ (p.save_path /\ how # "ok"))

\* how the write of a save goes
SaveOutcomes(p) == IF p.save_path THEN {ckptWrite} ELSE {"ok"}

\* core.rs:310: progress.save().await
PSF_Save ==
    /\ pc = "psf_save"
    /\ \E how \in SaveOutcomes(progress) :
          /\ Save(progress, how)
          /\ save_ok' = (how = "ok")
    /\ pc' = "psf_ret"
    /\ UNCHANGED <<exit, cmd_exit, idx, fsVars, progress, wlock, readers, shutdown_requested,
                   detected, line_count, plfVars, mergeVars, chanVars, outVars,
                   sigVars, libVars, fullyRead, touched, emitted>>

\* core.rs:310-322: `?` on the save result, or Ok(()); the write guard is
\* dropped on either way out
PSF_Return ==
    /\ pc = "psf_ret"
    /\ wlock' = FALSE
    /\ NextFile(save_ok)
    /\ UNCHANGED <<fsVars, progress, disk, readers, shutdown_requested, psfVars,
                   plfVars, mergeVars, chanVars, outVars, sigVars, libVars,
                   histVars>>

\* ---------------------------------------------------------------------------
\* ProcessingCore::merge_and_deduplicate (core.rs:106-184)
\* ---------------------------------------------------------------------------
\* the positions of processed_files whose metadata can be read
ValidEntries(fs, pf) == {i \in 1..Len(pf) : fs[pf[i]].io # "missing"}

\* the files merge_and_deduplicate ingests: processed_files
MergeInput(p) == p.processed_files

\* core.rs:108: self.app_state.progress.read().await; the guard is a temporary
\* of the statement and lives until validate_and_collect_metadata has returned
MergeLock ==
    /\ pc = "merge_start"
    /\ ~wlock
    /\ readers' = readers \cup {"main"}
    /\ pc' = "collect"
    /\ UNCHANGED <<exit, cmd_exit, idx, fsVars, progress, disk, wlock, shutdown_requested,
                   psfVars, plfVars, mergeVars, chanVars, outVars, sigVars,
                   libVars, histVars>>

\* core.rs:107-110: validate_and_collect_metadata, then
\* optimize_processing_order.  The metadata futures of one batch of 50 complete
\* in any order (FuturesUnordered).
MergeStart ==
    /\ pc = "collect"
    /\ LET pf == MergeInput(progress)
       IN  \E order \in Perms(ValidEntries(files, pf)) :
              optimized' = optimize_processing_order(
                  [j \in 1..Len(order) |->
                      <<pf[order[j]], Len(files[pf[order[j]]].bytes)>>])
    /\ readers' = readers \ {"main"}
    /\ pc' = "mem_info"
    /\ UNCHANGED <<exit, cmd_exit, idx, fsVars, progress, disk, wlock, shutdown_requested,
                   psfVars, plfVars, midx, in_flight, batch_size,
                   total_lines_processed, chanVars, outVars, sigVars, libVars,
                   histVars>>

\* core.rs:113: sys_info::mem_info() fails; the error leaves
\* merge_and_deduplicate and process (core.rs:97)
MemInfoFail ==
    /\ pc = "mem_info"
    /\ pc' = "done"
    /\ exit' = "error"
    /\ UNCHANGED <<cmd_exit, idx, fsVars, progVars, psfVars, plfVars, mergeVars, chanVars,
                   outVars, sigVars, libVars, histVars>>

\* core.rs:113-135: batch size, channel, writer task
MemInfoOk ==
    /\ pc = "mem_info"
    /\ \E avail \in AvailChoices : batch_size' = BatchSize(avail)
    /\ chan' = <<>>
    /\ tx_open' = TRUE
    /\ agg' = "recv"
    /\ final_set' = {}
    /\ unique_count' = 0
    /\ total_lines_processed' = 0
    /\ midx' = 1
    /\ pc' = "files_loop"
    /\ UNCHANGED <<exit, cmd_exit, idx, fsVars, progVars, psfVars, plfVars, optimized,
                   in_flight, sent,
                   outVars, sigVars, libVars, histVars>>

\* a file loop that starts process_large_file for a file and goes on to the
\* next file without awaiting it
FilesLoopSpawn ==
    /\ pc = "files_loop"
    /\ midx <= Len(optimized)
    /\ in_flight' = in_flight \cup {midx}
    /\ midx' = midx + 1
    /\ UNCHANGED <<pc, exit, cmd_exit, idx, fsVars, progVars, psfVars, plfVars,
                   optimized, batch_size, total_lines_processed, chanVars, outVars,
                   sigVars, libVars, histVars>>

\* core.rs:138-144: the next file of optimized_files goes to process_large_file,
\* which the loop awaits
FilesLoopNext ==
    /\ pc = "files_loop"
    /\ midx <= Len(optimized)
    /\ in_flight' = in_flight \cup {midx}
    /\ pc' = "plf_open"
    /\ UNCHANGED <<exit, cmd_exit, idx, fsVars, progVars, psfVars, plfVars, optimized,
                   midx, batch_size, total_lines_processed, chanVars, outVars,
                   sigVars, libVars, histVars>>

\* a merge_and_deduplicate that awaits the writer task with its Sender alive
DropTxKept ==
    /\ pc = "files_loop"
    /\ midx > Len(optimized)
    /\ pc' = "await_writer"
    /\ UNCHANGED <<exit, cmd_exit, idx, fsVars, progVars, psfVars, plfVars, mergeVars,
                   chanVars, outVars, sigVars, libVars, histVars>>

\* core.rs:138,154: the loops are exhausted, drop(tx)
DropTx ==
    /\ pc = "files_loop"
    /\ midx > Len(optimized)
    /\ tx_open' = FALSE
    /\ pc' = "await_writer"
    /\ UNCHANGED <<exit, cmd_exit, idx, fsVars, progVars, psfVars, plfVars, mergeVars, chan,
                   agg, final_set, unique_count, sent, outVars, sigVars, libVars,
                   histVars>>

\* ---------------------------------------------------------------------------
\* ProcessingCore::process_large_file (core.rs:187-254)
\* ---------------------------------------------------------------------------
\* core.rs:199-213: detection and the converting reader; an Err is dropped by
\* the caller's `if let Ok` (core.rs:143).  A file that exists is opened, for
\* its sample and for the conversion, before the read of its content fails.
PLF_Open ==
    /\ pc = "plf_open"
    /\ LET f == files[optimized[midx]]
       IN  IF f.io # "ok"
           THEN /\ midx' = midx + 1
                /\ in_flight' = in_flight \ {midx}
                /\ pc' = "files_loop"
                /\ touched' = IF f.io = "missing" THEN touched
                              ELSE touched \cup {optimized[midx]}
                /\ UNCHANGED plfVars
           ELSE /\ rbuf' = TextOf(f)
                /\ current_set' = {}
                /\ bytes_processed' = 0
                /\ total_lines' = 0
                /\ touched' = touched \cup {optimized[midx]}
                /\ pc' = "plf_read"
                /\ UNCHANGED <<midx, in_flight>>
    /\ UNCHANGED <<exit, cmd_exit, idx, fsVars, progVars, psfVars, optimized, batch_size,
                   total_lines_processed, chanVars, outVars, sigVars, libVars,
                   fullyRead, emitted, saveFailed>>

\* a flush test that lets the set grow one line past chunk_size
ShouldFlushLate(bytes, n, chunk_size) == bytes >= CHUNK_SIZE \/ n > chunk_size

\* core.rs:239: bytes_processed >= CHUNK_SIZE || current_set.len() >= chunk_size
ShouldFlush(bytes, n, chunk_size) == bytes >= CHUNK_SIZE \/ n >= chunk_size

\* core.rs:215-239: one read_until that returns n > 0
PLF_Read ==
    /\ pc = "plf_read"
    /\ rbuf # <<>>
    /\ LET buffer == read_until(rbuf)
           new == LineOfBuffer(buffer)
       IN  /\ rbuf' = SubSeq(rbuf, Len(buffer) + 1, Len(rbuf))
           /\ bytes_processed' = bytes_processed + Len(buffer)
           /\ current_set' = current_set \cup new
           /\ total_lines' = total_lines + Cardinality(new)
           /\ pc' = IF ShouldFlush(bytes_processed + Len(buffer),
                                   Cardinality(current_set \cup new), batch_size)
                    THEN "plf_send" ELSE "plf_read"
    /\ UNCHANGED <<exit, cmd_exit, idx, fsVars, progVars, psfVars, mergeVars, chanVars,
                   outVars, sigVars, libVars, histVars>>

\* a send on a channel without a capacity
SendUnbounded(batch) ==
    /\ chan' = Append(chan, batch)
    /\ sent' = sent \cup {batch}

\* tx.send(current_set).await: waits while the channel is full
Send(batch) ==
    /\ Len(chan) < ChannelCap
    /\ chan' = Append(chan, batch)
    /\ sent' = sent \cup {batch}

\* core.rs:240-242
PLF_Send ==
    /\ pc = "plf_send"
    /\ Send(current_set)
    /\ current_set' = {}
    /\ bytes_processed' = 0
    /\ pc' = "plf_read"
    /\ UNCHANGED <<exit, cmd_exit, idx, fsVars, progVars, psfVars, rbuf, total_lines,
                   mergeVars, tx_open, agg, final_set, unique_count, outVars,
                   sigVars, libVars, histVars>>

\* core.rs:218,246: read_until returns 0
PLF_Eof ==
    /\ pc = "plf_read"
    /\ rbuf = <<>>
    /\ pc' = IF current_set # {} THEN "plf_tail" ELSE "plf_ret"
    /\ UNCHANGED <<exit, cmd_exit, idx, fsVars, progVars, psfVars, plfVars, mergeVars, chanVars,
                   outVars, sigVars, libVars, histVars>>

\* core.rs:246-248
PLF_SendTail ==
    /\ pc = "plf_tail"
    /\ Send(current_set)
    /\ pc' = "plf_ret"
    /\ UNCHANGED <<exit, cmd_exit, idx, fsVars, progVars, psfVars, plfVars, mergeVars,
                   tx_open, agg, final_set, unique_count, outVars, sigVars,
                   libVars, histVars>>

\* core.rs:253,143-150: Ok(total_lines) back in the file loop
PLF_Return ==
    /\ pc = "plf_ret"
    /\ total_lines_processed' = total_lines_processed + total_lines
    /\ emitted' = emitted \cup {optimized[midx]}
    /\ midx' = midx + 1
    /\ in_flight' = in_flight \ {midx}
    /\ pc' = "files_loop"
    /\ UNCHANGED <<exit, cmd_exit, idx, fsVars, progVars, psfVars, plfVars, optimized,
                   batch_size, chanVars, outVars, sigVars, libVars, fullyRead,
                   touched, saveFailed>>

\* ---------------------------------------------------------------------------
\* The writer task (core.rs:121-132) and the output writer (core.rs:156-183)
\* ---------------------------------------------------------------------------
\* a writer task that keeps only the batch it received last
ExtendOverwrite(set, chunk_set) == chunk_set

\* core.rs:127: final_set.extend(chunk_set.drain())
Extend(set, chunk_set) == set \cup chunk_set

\* a writer task that swaps the received batch in for its set
AggRecvSwap ==
    /\ agg = "recv"
    /\ chan # <<>>
    /\ final_set' = Head(chan)
    /\ unique_count' = Cardinality(Head(chan))
    /\ chan' = Tail(chan)
    /\ UNCHANGED <<mainVars, fsVars, progVars, psfVars, plfVars, mergeVars,
                   tx_open, agg, sent, outVars, sigVars, libVars, histVars>>

\* core.rs:126-128: one batch is received and folded in
AggRecv ==
    /\ agg = "recv"
    /\ chan # <<>>
    /\ final_set' = Extend(final_set, Head(chan))
    /\ unique_count' = Cardinality(Extend(final_set, Head(chan)))
    /\ chan' = Tail(chan)
    /\ UNCHANGED <<mainVars, fsVars, progVars, psfVars, plfVars, mergeVars,
                   tx_open, agg, sent, outVars, sigVars, libVars, histVars>>

\* a receive loop that ends as soon as the senders are gone, batches still
\* buffered or not
AggCloseEarly ==
    /\ agg = "recv"
    /\ ~tx_open
    /\ agg' = "returned"
    /\ UNCHANGED <<mainVars, fsVars, progVars, psfVars, plfVars, mergeVars, chan,
                   tx_open, final_set, unique_count, sent, outVars, sigVars,
                   libVars, histVars>>

\* core.rs:126,130: recv() answers None on a closed, empty channel
AggClose ==
    /\ agg = "recv"
    /\ chan = <<>>
    /\ ~tx_open
    /\ agg' = "returned"
    /\ UNCHANGED <<mainVars, fsVars, progVars, psfVars, plfVars, mergeVars, chan,
                   tx_open, final_set, unique_count, sent, outVars, sigVars,
                   libVars, histVars>>

\* core.rs:158: File::create fails, `?` ends process with the Err
CreateOutputFail ==
    /\ pc = "await_writer"
    /\ agg = "returned"
    /\ ~config.dir_writable
    /\ pc' = "done"
    /\ exit' = "error"
    /\ UNCHANGED <<cmd_exit, idx, fsVars, progVars, psfVars, plfVars, mergeVars,
                   chanVars, outVars, sigVars, libVars, histVars>>

\* core.rs:157-158: writer_task.await, File::create
CreateOutput ==
    /\ pc = "await_writer"
    /\ agg = "returned"
    /\ config.dir_writable
    /\ outExists' = TRUE
    /\ output' = <<>>
    /\ pc' = "write"
    /\ UNCHANGED <<exit, cmd_exit, idx, fsVars, progVars, psfVars, plfVars, mergeVars, chanVars,
                   sigVars, libVars, histVars>>

\* the file the output writer leaves: each line of unique_lines followed by a
\* newline, in the set's iteration order; kept as line -> number of copies
WrittenLines(unique_lines) == [l \in unique_lines |-> 1]

\* core.rs:164-179: the lines are written and flushed; when there is a line
\* to write and the write is refused, `?` ends process with the Err and the
\* created file stays empty
WriteOutput ==
    /\ pc = "write"
    /\ IF final_set = {} \/ outWritable
       THEN /\ output' = WrittenLines(final_set)
            /\ pc' = "finish"
            /\ UNCHANGED exit
       ELSE /\ pc' = "done"
            /\ exit' = "error"
            /\ UNCHANGED output
    /\ UNCHANGED <<cmd_exit, idx, fsVars, progVars, psfVars, plfVars, mergeVars, chanVars,
                   outExists, sigVars, libVars, histVars>>

\* core.rs:180-183,99-102
ProcessDone ==
    /\ pc = "finish"
    /\ pc' = "done"
    /\ exit' = "completed"
    /\ UNCHANGED <<cmd_exit, idx, fsVars, progVars, psfVars, plfVars, mergeVars, chanVars,
                   outVars, sigVars, libVars, histVars>>

\* ---------------------------------------------------------------------------
\* The interrupt handler (signal_handler.rs:34-63 for merge, main.rs:124-140
\* for resume).  The closure calls tokio::spawn (signal_handler.rs:49,
\* main.rs:129): on a thread that is inside the runtime the task is spawned;
\* on a thread of its own, where the ctrlc crate calls it, tokio::spawn panics,
\* the thread ends and no later interrupt is handled.  A spawned task runs
\* until main returns, when the runtime drops it.
\* ---------------------------------------------------------------------------
Interrupt ==
    /\ mode \in {"merge", "resume"}
    /\ Alive
    /\ sig = "idle"
    /\ interrupts < MaxInterrupts
    /\ interrupts' = interrupts + 1
    /\ \E in_runtime \in BOOLEAN :
          sig' = IF in_runtime THEN "save_lock" ELSE "panicked"
    /\ UNCHANGED <<mainVars, fsVars, progVars, psfVars, plfVars, mergeVars, chanVars,
                   outVars, handled, libVars, histVars>>

\* a save_progress that takes no notice of the write guard
SigSaveLockFree ==
    /\ Alive
    /\ sig = "save_lock"
    /\ readers' = readers \cup {"sig"}
    /\ sig' = "save"
    /\ UNCHANGED <<mainVars, fsVars, progress, disk, wlock, shutdown_requested,
                   psfVars, plfVars, mergeVars, chanVars, outVars, interrupts,
                   handled, libVars, histVars>>

\* app_state.rs:43: self.progress.read().await
SigSaveLock ==
    /\ Alive
    /\ sig = "save_lock"
    /\ ~wlock
    /\ readers' = readers \cup {"sig"}
    /\ sig' = "save"
    /\ UNCHANGED <<mainVars, fsVars, progress, disk, wlock, shutdown_requested,
                   psfVars, plfVars, mergeVars, chanVars, outVars, interrupts,
                   handled, libVars, histVars>>

\* a save_progress that does not give its read guard back
SigSaveKeepsGuard ==
    /\ Alive
    /\ sig = "save"
    /\ \E how \in SaveOutcomes(progress) : Save(progress, how)
    /\ sig' = "signal"
    /\ UNCHANGED <<mainVars, fsVars, progress, wlock, readers, shutdown_requested,
                   psfVars, plfVars, mergeVars, chanVars, outVars, interrupts,
                   handled, libVars, fullyRead, touched, emitted>>

\* app_state.rs:44-45: progress.save().await, the read guard is dropped; an Err
\* is logged by the handler
SigSave ==
    /\ Alive
    /\ sig = "save"
    /\ \E how \in SaveOutcomes(progress) : Save(progress, how)
    /\ readers' = readers \ {"sig"}
    /\ sig' = "signal"
    /\ UNCHANGED <<mainVars, fsVars, progress, wlock, shutdown_requested, psfVars,
                   plfVars, mergeVars, chanVars, outVars, interrupts, handled,
                   libVars, fullyRead, touched, emitted>>

\* the flag after the resume handler's state.request_shutdown().await
\* (main.rs:138, app_state.rs:48-50)
request_shutdown(flag) == TRUE

\* the flag after the merge handler's shutdown_tx.send(())
\* (signal_handler.rs:56): a broadcast nobody subscribed to, its Err is logged
broadcast_shutdown(flag) == flag

SigSignal ==
    /\ Alive
    /\ sig = "signal"
    /\ shutdown_requested' = IF mode = "resume"
                             THEN request_shutdown(shutdown_requested)
                             ELSE broadcast_shutdown(shutdown_requested)
    /\ sig' = "idle"
    /\ handled' = handled + 1
    /\ UNCHANGED <<mainVars, fsVars, progress, disk, wlock, readers, psfVars,
                   plfVars, mergeVars, chanVars, outVars, interrupts, libVars,
                   histVars>>

\* ---------------------------------------------------------------------------
\* FileProcessor::process_file (processing.rs:22-44) on a Progress the caller
\* owns, and Progress::add_processed_file (progress.rs:104-111)
\* ---------------------------------------------------------------------------
FP_Call ==
    /\ pc = "lib"
    /\ calls < MaxCalls
    /\ \E f \in Paths : fpfile' = f
    /\ calls' = calls + 1
    /\ pc' = "fp_open"
    /\ UNCHANGED <<trial, exit, cmd_exit, idx, fsVars, progVars, psfVars, plfVars, mergeVars, chanVars,
                   outVars, sigVars, histVars>>

\* processing.rs:25-31: File::open; a failure is warned about and Ok(()) returned
FP_Open ==
    /\ pc = "fp_open"
    /\ pc' = IF files[fpfile].io = "missing" THEN "lib" ELSE "fp_read"
    /\ touched' = IF files[fpfile].io = "missing" THEN touched ELSE touched \cup {fpfile}
    /\ UNCHANGED <<exit, cmd_exit, idx, fsVars, progVars, psfVars, plfVars, mergeVars, chanVars,
                   outVars, sigVars, libVars, fullyRead, emitted, saveFailed>>

\* lines.next_line() (processing.rs:36) returns every line of the file: no
\* read fails and every line is valid UTF-8, no encoding is detected
ReadsAsUtf8(f) == f.io = "ok" /\ Utf8Valid(f.bytes)

\* processing.rs:33-40: the lines are read to the end; a read error or a line
\* that is not UTF-8 leaves the function through `?`
FP_Read ==
    /\ pc = "fp_read"
    /\ pc' = IF ReadsAsUtf8(files[fpfile]) THEN "fp_add" ELSE "lib"
    /\ fullyRead' = IF ReadsAsUtf8(files[fpfile]) THEN fullyRead \cup {fpfile} ELSE fullyRead
    /\ UNCHANGED <<exit, cmd_exit, idx, fsVars, progVars, psfVars, plfVars, mergeVars, chanVars,
                   outVars, sigVars, libVars, touched, emitted, saveFailed>>

\* add_processed_file: push, current_position += 1, save
add_processed_file(p, file) ==
    [p EXCEPT !.processed_files = PushFile(@, file),
              !.current_position = @ + 1]

\* processing.rs:42-43
FP_Add ==
    /\ pc = "fp_add"
    /\ progress' = add_processed_file(progress, fpfile)
    /\ \E how \in SaveOutcomes(progress) : Save(add_processed_file(progress, fpfile), how)
    /\ pc' = "lib"
    /\ UNCHANGED <<exit, cmd_exit, idx, fsVars, wlock, readers, shutdown_requested, psfVars,
                   plfVars, mergeVars, chanVars, outVars, sigVars, libVars,
                   fullyRead, touched, emitted>>

\* ---------------------------------------------------------------------------
\* FileUtils (file_utils.rs:14-108), called by the owner of the library on the
\* files of the run: the checkpoint file, the output file, the directory of
\* the input files
\* ---------------------------------------------------------------------------
\* file_utils.rs:16-23: a directory that is missing is created; no file changes
FU_EnsureDir ==
    /\ pc = "lib"
    /\ calls < MaxCalls
    /\ calls' = calls + 1
    /\ UNCHANGED <<fpfile, trial, mainVars, fsVars, progVars, psfVars, plfVars,
                   mergeVars, chanVars, outVars, sigVars, histVars>>

\* the contents atomic_write is given for the checkpoint file: text that is
\* no JSON, and the JSON of an empty Progress
WriteChoices == {CorruptCheckpoint, Snapshot(DefaultProgress)}

\* file_utils.rs:26-33 on the checkpoint file: the content is written to a
\* temporary file beside it, which is renamed over it; `?` hands a failure
\* on.  A checkpoint file that cannot be written can still be replaced when
\* its directory can be written.
FU_AtomicWrite ==
    /\ pc = "lib"
    /\ calls < MaxCalls
    /\ calls' = calls + 1
    /\ \E content \in WriteChoices :
          \E ok \in (IF ckptWrite = "ok" THEN {TRUE} ELSE BOOLEAN) :
              disk' = IF ok THEN content ELSE disk
    /\ UNCHANGED <<fpfile, trial, mainVars, fsVars, progress, wlock, readers,
                   shutdown_requested, psfVars, plfVars, mergeVars, chanVars,
                   outVars, sigVars, histVars>>

\* the lists of lines append_unique_lines is given
LineLists == UNION {[1..n -> {<<97>>, <<98>>}] : n \in 0..2}

\* file_utils.rs:55-84: the file after the call, as line -> number of copies:
\* each given line that is neither in the file nor earlier in the list is
\* appended once
append_unique_lines(existing, lines) ==
    [l \in DOMAIN existing \cup Range(lines) |->
        IF l \in DOMAIN existing THEN existing[l] ELSE 1]

\* append_unique_lines on the output file, which it creates when missing
FU_AppendUniqueLines ==
    /\ pc = "lib"
    /\ calls < MaxCalls
    /\ calls' = calls + 1
    /\ \E lines \in LineLists : output' = append_unique_lines(output, lines)
    /\ outExists' = TRUE
    /\ UNCHANGED <<fpfile, trial, mainVars, fsVars, progVars, psfVars, plfVars,
                   mergeVars, chanVars, sigVars, histVars>>

\* the names of the output file, the checkpoint file and the input list in
\* the directory that holds them and the input files: out, ckpt, list
OutputName == <<111, 117, 116>>
CheckpointName == <<99, 107, 112, 116>>
ListName == <<108, 105, 115, 116>>

\* the prefixes cleanup_temp_files is given: the empty one, f, f1, o, c, l
\* and t
PrefixChoices == {<<>>, <<102>>, <<102, 49>>, <<111>>, <<99>>, <<108>>, <<116>>}

\* file_utils.rs:95-99: n.starts_with(prefix)
StartsWith(name, prefix) ==
    Len(prefix) <= Len(name) /\ SubSeq(name, 1, Len(prefix)) = prefix

\* the names of the files in the directory
DirEntries ==
    {PathName(p) : p \in {q \in Paths : files[q].io # "missing"}}
        \cup (IF outExists THEN {OutputName} ELSE {})
        \cup (IF disk.exists THEN {CheckpointName} ELSE {})
        \cup (IF list # "missing" THEN {ListName} ELSE {})

\* file_utils.rs:88-108 on that directory: each entry whose name starts with
\* the prefix is removed; a removal that fails is warned about and the entry
\* stays
FU_CleanupTempFiles ==
    /\ pc = "lib"
    /\ calls < MaxCalls
    /\ calls' = calls + 1
    /\ \E prefix \in PrefixChoices :
          \E removed \in SUBSET {n \in DirEntries : StartsWith(n, prefix)} :
              /\ files' = [p \in Paths |->
                              IF PathName(p) \in removed
                              THEN [files[p] EXCEPT !.io = "missing"]
                              ELSE files[p]]
              /\ outExists' = (outExists /\ OutputName \notin removed)
              /\ output' = IF OutputName \in removed THEN <<>> ELSE output
              /\ disk' = IF CheckpointName \in removed THEN NoCheckpoint ELSE disk
              /\ list' = IF ListName \in removed THEN "missing" ELSE list
    /\ UNCHANGED <<fpfile, trial, mainVars, ckptWrite, errlog, outWritable, mode,
                   loaded, config, ckpt, progress, wlock, readers,
                   shutdown_requested, psfVars, plfVars, mergeVars, chanVars,
                   sigVars, histVars>>

\* ---------------------------------------------------------------------------
\* Specification
\* ---------------------------------------------------------------------------
Next ==
    \/ HandleMerge \/ FromResume \/ CoreNew \/ CommandReturn
    \/ ReadInputFiles \/ LoopEnd \/ LoopShutdown \/ LoopNext
    \/ PSF_Shutdown \/ PSF_Begin \/ PSF_Detect \/ PSF_Count
    \/ PSF_Lock \/ PSF_Push \/ PSF_AddPos \/ PSF_Save \/ PSF_Return
    \/ MergeLock \/ MergeStart \/ MemInfoFail \/ MemInfoOk \/ FilesLoopNext \/ DropTx
    \/ PLF_Open \/ PLF_Read \/ PLF_Send \/ PLF_Eof \/ PLF_SendTail \/ PLF_Return
    \/ AggRecv \/ AggClose \/ CreateOutputFail \/ CreateOutput \/ WriteOutput \/ ProcessDone
    \/ Interrupt \/ SigSaveLock \/ SigSave \/ SigSignal
    \/ FP_Call \/ FP_Open \/ FP_Read \/ FP_Add
    \/ FU_EnsureDir \/ FU_AtomicWrite \/ FU_AppendUniqueLines \/ FU_CleanupTempFiles

Spec == Init /\ [][Next]_vars

\* ---------------------------------------------------------------------------
\* The commands under the scheduling of the tokio runtime: the main task, the
\* spawned writer task and the handler's task are each polled again whenever
\* they can take a step (main.rs:60 #[tokio::main], core.rs:121 tokio::spawn,
\* signal_handler.rs:49 and main.rs:129 tokio::spawn)
\* ---------------------------------------------------------------------------
MainTask ==
    \/ HandleMerge \/ FromResume \/ CoreNew \/ CommandReturn
    \/ ReadInputFiles \/ LoopEnd \/ LoopShutdown \/ LoopNext
    \/ PSF_Shutdown \/ PSF_Begin \/ PSF_Detect \/ PSF_Count
    \/ PSF_Lock \/ PSF_Push \/ PSF_AddPos \/ PSF_Save \/ PSF_Return
    \/ MergeLock \/ MergeStart \/ MemInfoFail \/ MemInfoOk \/ FilesLoopNext \/ DropTx
    \/ PLF_Open \/ PLF_Read \/ PLF_Send \/ PLF_Eof \/ PLF_SendTail \/ PLF_Return
    \/ CreateOutputFail \/ CreateOutput \/ WriteOutput \/ ProcessDone

WriterTask == AggRecv \/ AggClose

HandlerTask == SigSaveLock \/ SigSave \/ SigSignal

\* the files of the fair runs: one of three lines, one that is missing and
\* one whose read fails
CommandFiles == {k \in FileKinds : k.bytes \in {<<97, 10, 98, 10, 97, 10>>, <<97, 10>>}}

CommandInit ==
    /\ Init
    /\ mode \in {"merge", "resume"}
    /\ \A p \in Paths : files[p] \in CommandFiles

CommandNext == MainTask \/ WriterTask \/ HandlerTask \/ Interrupt

\* the steps of the main task that wait for nothing: they are enabled exactly
\* at these positions and each of them leaves its position after finitely
\* many steps, so weak fairness of them is []<>~AtRead
MainTaskReads ==
    \/ PSF_Detect \/ PSF_Count \/ MergeStart
    \/ PLF_Open \/ PLF_Read \/ PLF_Eof

AtRead == pc \in {"psf_detect", "psf_count", "collect", "plf_open", "plf_read"}

\* its other steps, among them the waits for the lock, for room in the
\* channel and for the writer task
MainTaskOther ==
    \/ HandleMerge \/ FromResume \/ CoreNew \/ CommandReturn
    \/ ReadInputFiles \/ LoopEnd \/ LoopShutdown \/ LoopNext
    \/ PSF_Shutdown \/ PSF_Begin
    \/ PSF_Lock \/ PSF_Push \/ PSF_AddPos \/ PSF_Save \/ PSF_Return
    \/ MergeLock \/ MemInfoFail \/ MemInfoOk \/ FilesLoopNext \/ DropTx
    \/ PLF_Send \/ PLF_SendTail \/ PLF_Return
    \/ CreateOutputFail \/ CreateOutput \/ WriteOutput \/ ProcessDone

FairSpec ==
    /\ CommandInit
    /\ [][CommandNext]_vars
    /\ WF_vars(MainTaskOther)
    /\ []<>(~AtRead)
    /\ WF_vars(WriterTask)
    /\ WF_vars(HandlerTask)

TypeOK ==
    /\ mode \in {"merge", "resume", "lib"}
    /\ wlock \in BOOLEAN
    /\ readers \subseteq {"main", "sig"}
    /\ shutdown_requested \in BOOLEAN
    /\ Len(chan) <= ChannelCap
    /\ progress.current_position \in Nat

\* ---------------------------------------------------------------------------
\* A part of the program run on its own: a merge run with a valid
\* configuration that stands at `start` with `recorded` as processed_files,
\* the channel and the writer task in place when `piped`
\* ---------------------------------------------------------------------------
StandaloneInit(fsys, start, recorded, piped, order, flying, sizes, t) ==
    /\ files \in fsys
    /\ ckptWrite = "ok"
    /\ mode = "merge"
    /\ config = ValidConfig
    /\ ckpt = "ok"
    /\ list = "ok"
    /\ errlog = TRUE
    /\ outWritable = TRUE
    /\ cmd_exit = "none"
    /\ loaded = <<>>
    /\ fullyRead = {}
    /\ progress = [DefaultProgress EXCEPT !.processed_files = recorded,
                                          !.current_position = SumLines(files, recorded)]
    /\ disk = NoCheckpoint
    /\ wlock = FALSE
    /\ readers = {}
    /\ shutdown_requested = FALSE
    /\ pc = start
    /\ exit = "none"
    /\ idx = 1
    /\ detected = UTF_8
    /\ line_count = 0
    /\ save_ok = TRUE
    /\ optimized = order
    /\ midx = 1
    /\ in_flight = flying
    /\ batch_size \in sizes
    /\ total_lines_processed = 0
    /\ rbuf = <<>>
    /\ current_set = {}
    /\ bytes_processed = 0
    /\ total_lines = 0
    /\ chan = <<>>
    /\ tx_open = piped
    /\ agg = IF piped THEN "recv" ELSE "none"
    /\ final_set = {}
    /\ unique_count = 0
    /\ outExists = FALSE
    /\ output = <<>>
    /\ sig = "idle"
    /\ interrupts = 0
    /\ handled = 0
    /\ calls = 0
    /\ fpfile = 1
    /\ trial = t
    /\ touched = {}
    /\ emitted = {}
    /\ sent = {}
    /\ saveFailed = FALSE

\* process_large_file(path, tx, chunk_size) (core.rs:187-254) on its own: one
\* file is ingested into a channel the writer task receives from, for every
\* chunk_size up to MaxBatch
PlfInit ==
    \E p \in Paths :
        StandaloneInit([Paths -> FileKinds], "plf_open", <<>>, TRUE, <<p>>, {1},
                       0..MaxBatch, NoTrial)

PlfNext ==
    \/ PLF_Open \/ PLF_Read \/ PLF_Send \/ PLF_Eof \/ PLF_SendTail \/ PLF_Return
    \/ AggRecv

PlfSpec == PlfInit /\ [][PlfNext]_vars

\* ---------------------------------------------------------------------------
\* merge_and_deduplicate (core.rs:106-155) from its call in process
\* (core.rs:97) up to the writer task's end, in a merge run whose per-file
\* loop has recorded PoolFiles entries, more than PARALLEL_FILES: an input
\* list may name a file more than once
\* ---------------------------------------------------------------------------
PoolInit ==
    \E recorded \in [1..PoolFiles -> Paths] :
        StandaloneInit([Paths -> CommandFiles], "merge_start", recorded, FALSE, <<>>, {},
                       {0}, NoTrial)

PoolNext ==
    \/ MergeLock \/ MergeStart \/ MemInfoFail \/ MemInfoOk
    \/ FilesLoopNext \/ DropTx
    \/ PLF_Open \/ PLF_Read \/ PLF_Send \/ PLF_Eof \/ PLF_SendTail \/ PLF_Return
    \/ AggRecv \/ AggClose

PoolSpec == PoolInit /\ [][PoolNext]_vars

\* a function run on its own starts from an idle program
NoFiles == [p \in Paths |-> [bytes |-> <<>>, guess |-> UTF_8, io |-> "missing"]]

TrialInit(t) == StandaloneInit({NoFiles}, "trial", <<>>, FALSE, <<>>, {}, {0}, t)

\* ---------------------------------------------------------------------------
\* Progress::save and Progress::load (progress.rs:81-100) on a Progress whose
\* paths are byte strings and on a checkpoint file that holds bytes.
\* serde_json::to_string_pretty writes the struct as an object, two spaces to
\* a level; serde writes a path as a string, which it refuses for a path that
\* is not valid UTF-8.  serde_json::from_str reads the struct from an object
\* or from an array of its fields.
\* ---------------------------------------------------------------------------
\* the paths a Progress is built from: empty (PathBuf::new()), a, a quote,
\* backslash n, a newline, a tab, the control character 01, e-acute, and the
\* lone byte E9
PathChoices ==
    {<<>>, <<97>>, <<34>>, <<92, 110>>, <<10>>, <<9>>, <<1>>, <<195, 169>>, <<233>>}

RECURSIVE SeqsUpTo(_, _)
SeqsUpTo(S, n) ==
    IF n = 0 THEN {<<>>}
    ELSE LET shorter == SeqsUpTo(S, n - 1)
         IN  shorter \cup {Append(q, x) : q \in {r \in shorter : Len(r) = n - 1}, x \in S}

SomePath(path) == [some |-> TRUE, path |-> path]
NonePath == [some |-> FALSE, path |-> <<>>]

\* the lower-case hexadecimal digit of n
HexDigit(n) == IF n < 10 THEN 48 + n ELSE 87 + n

\* serde_json's escaping of one byte of a string: the quote, the backslash,
\* \b \t \n \f \r, \u00XX for the other control characters; every other byte
\* as it is
EscapeByte(b) ==
    IF b = 34 THEN <<92, 34>>
    ELSE IF b = 92 THEN <<92, 92>>
    ELSE IF b = 8 THEN <<92, 98>>
    ELSE IF b = 9 THEN <<92, 116>>
    ELSE IF b = 10 THEN <<92, 110>>
    ELSE IF b = 12 THEN <<92, 102>>
    ELSE IF b = 13 THEN <<92, 114>>
    ELSE IF b < 32 THEN <<92, 117, 48, 48, HexDigit(b \div 16), HexDigit(b % 16)>>
    ELSE <<b>>

RECURSIVE Escape(_)
Escape(str) ==
    IF str = <<>> THEN <<>> ELSE EscapeByte(Head(str)) \o Escape(Tail(str))

\* a path as a JSON string
Quoted(path) == <<34>> \o Escape(path) \o <<34>>

\* the decimal digits of n
RECURSIVE Decimal(_)
Decimal(n) == IF n < 10 THEN <<48 + n>> ELSE Decimal(n \div 10) \o <<48 + (n % 10)>>

\* a usize is held as its digits to the base 10^9, the lowest first: <<n>>
\* for a number below 10^9, three of them for u64::MAX
Usize(n) == <<n>>

\* the nine decimal digits of one of the lower digits of a usize
NineDigits(d) ==
    [k \in 1..9 |-> IF k <= 9 - Len(d) THEN 48 ELSE d[k - (9 - Len(d))]]

\* the decimal numeral of a usize, as serde_json writes it
RECURSIVE NumberText(_)
NumberText(u) ==
    IF Len(u) = 1 THEN Decimal(u[1])
    ELSE NumberText(Tail(u)) \o NineDigits(Decimal(Head(u)))

\* the elements of a pretty-printed array, one to a line
RECURSIVE ArrayLines(_)
ArrayLines(paths) ==
    IF paths = <<>> THEN <<>>
    ELSE <<32, 32, 32, 32>> \o Quoted(Head(paths))
            \o (IF Len(paths) > 1 THEN <<44, 10>> ELSE <<10>>)
            \o ArrayLines(Tail(paths))

ArrayText(paths) ==
    IF paths = <<>> THEN <<91, 93>>
    ELSE <<91, 10>> \o ArrayLines(paths) \o <<32, 32, 93>>

\* the field names, each as `  "name": `
KeyInputFile == <<32, 32, 34, 105, 110, 112, 117, 116, 95, 102, 105, 108, 101, 34, 58, 32>>
KeyOutputFile == <<32, 32, 34, 111, 117, 116, 112, 117, 116, 95, 102, 105, 108, 101, 34, 58, 32>>
KeyThreads == <<32, 32, 34, 116, 104, 114, 101, 97, 100, 115, 34, 58, 32>>
KeyProcessedFiles == <<32, 32, 34, 112, 114, 111, 99, 101, 115, 115, 101, 100, 95, 102, 105, 108, 101, 115, 34, 58, 32>>
KeyCurrentPosition == <<32, 32, 34, 99, 117, 114, 114, 101, 110, 116, 95, 112, 111, 115, 105, 116, 105, 111, 110, 34, 58, 32>>
KeySavePath == <<32, 32, 34, 115, 97, 118, 101, 95, 112, 97, 116, 104, 34, 58, 32>>

\* every path serde has to write for a Progress
PathsToWrite(p) ==
    {p.input_file, p.output_file} \cup Range(p.processed_files)
        \cup (IF p.save_path.some THEN {p.save_path.path} ELSE {})

\* progress.rs:84: serde_json::to_string_pretty(&self)
to_string_pretty(p) ==
    IF \E q \in PathsToWrite(p) : ~Utf8Valid(q)
    THEN [ok |-> FALSE, text |-> <<>>]
    ELSE [ok |-> TRUE,
          text |-> <<123, 10>>
                     \o KeyInputFile \o Quoted(p.input_file) \o <<44, 10>>
                     \o KeyOutputFile \o Quoted(p.output_file) \o <<44, 10>>
                     \o KeyThreads \o NumberText(p.threads) \o <<44, 10>>
                     \o KeyProcessedFiles \o ArrayText(p.processed_files) \o <<44, 10>>
                     \o KeyCurrentPosition \o NumberText(p.current_position) \o <<44, 10>>
                     \o KeySavePath
                     \o (IF p.save_path.some THEN Quoted(p.save_path.path)
                         ELSE <<110, 117, 108, 108>>)
                     \o <<10, 125>>]

\* ---- serde_json::from_str: the reader stands at position i of the text t;
\* ---- a step gives what it read and the position behind it, or fails
Fail == [ok |-> FALSE, val |-> <<>>, next |-> 0]
Read(v, i) == [ok |-> TRUE, val |-> v, next |-> i]

\* the byte at position i, -1 behind the end
Peek(t, i) == IF i >= 1 /\ i <= Len(t) THEN t[i] ELSE -1

IsDigit(b) == b >= 48 /\ b <= 57

\* the first position from i on whose byte Stop holds of, the position behind
\* the end when there is none
FirstWhere(t, i, Stop(_)) ==
    LET found == {k \in i..Len(t) : Stop(t[k])}
    IN  IF found = {} THEN Len(t) + 1 ELSE CHOOSE k \in found : \A m \in found : k <= m

\* parse_whitespace: space, tab, newline, carriage return
SkipWs(t, i) == FirstWhere(t, i, LAMBDA b : b \notin {32, 9, 10, 13})

\* the value of a hexadecimal digit, -1 for another byte
HexVal(b) ==
    IF IsDigit(b) THEN b - 48
    ELSE IF b >= 97 /\ b <= 102 THEN b - 87
    ELSE IF b >= 65 /\ b <= 70 THEN b - 55
    ELSE -1

\* decode_hex_escape: the four hexadecimal digits at i, -1 when they are not
HexNumber(v) ==
    IF \A k \in 0..3 : v[k] >= 0 THEN v[0] * 4096 + v[1] * 256 + v[2] * 16 + v[3]
    ELSE -1

Hex4(t, i) == HexNumber([k \in 0..3 |-> HexVal(Peek(t, i + k))])

\* parse_escape after \u at position i - 1: the code point, with the second
\* half of a surrogate pair; a lone surrogate is an error
SurrogatePair(t, i, n1, n2) ==
    IF Peek(t, i + 4) = 92 /\ Peek(t, i + 5) = 117 /\ n2 >= 56320 /\ n2 <= 57343
    THEN Read(Utf8Encode(65536 + (n1 - 55296) * 1024 + (n2 - 56320)), i + 10)
    ELSE Fail

EscapedChar(t, i, n1) ==
    IF n1 < 0 \/ (n1 >= 56320 /\ n1 <= 57343) THEN Fail
    ELSE IF n1 >= 55296 /\ n1 <= 56319 THEN SurrogatePair(t, i, n1, Hex4(t, i + 6))
    ELSE Read(Utf8Encode(n1), i + 4)

UnicodeEscape(t, i) == EscapedChar(t, i, Hex4(t, i))

\* the character a one-letter escape stands for, -1 for another letter
EscapeLetter(b) ==
    IF b \in {34, 92, 47} THEN b
    ELSE IF b = 98 THEN 8
    ELSE IF b = 102 THEN 12
    ELSE IF b = 110 THEN 10
    ELSE IF b = 114 THEN 13
    ELSE IF b = 116 THEN 9
    ELSE -1

\* the first position from i on that holds a quote, a backslash or a control
\* character
StringStop(t, i) == FirstWhere(t, i, LAMBDA b : b \in {34, 92} \/ b < 32)

\* parse_str behind the opening quote: the string up to the closing quote,
\* taken in the runs between its escapes
RECURSIVE StringBody(_, _, _), StringFrom(_, _, _, _), StringBehind(_, _, _)
StringBody(t, i, acc) == StringFrom(t, i, acc, StringStop(t, i))

\* k is the first position from i on that does not belong to the run
StringFrom(t, i, acc, k) ==
    IF Peek(t, k) = 34 THEN Read(acc \o SubSeq(t, i, k - 1), k + 1)
    ELSE IF Peek(t, k) # 92 THEN Fail
    ELSE IF Peek(t, k + 1) = 117
         THEN StringBehind(t, acc \o SubSeq(t, i, k - 1), UnicodeEscape(t, k + 2))
    ELSE IF EscapeLetter(Peek(t, k + 1)) >= 0
         THEN StringBody(t, k + 2,
                         Append(acc \o SubSeq(t, i, k - 1), EscapeLetter(t[k + 1])))
    ELSE Fail

\* u is the \u escape read behind the run
StringBehind(t, run, u) ==
    IF u.ok THEN StringBody(t, u.next, run \o u.val) ELSE Fail

\* PathBuf: deserialize_string, a JSON string and nothing else
ParsePath(t, i) ==
    LET j == SkipWs(t, i)
    IN  IF Peek(t, j) = 34 THEN StringBody(t, j + 1, <<>>) ELSE Fail

\* the position behind the word w at i, 0 when another text stands there
Word(t, i, w) ==
    IF i + Len(w) - 1 <= Len(t) /\ SubSeq(t, i, i + Len(w) - 1) = w THEN i + Len(w)
    ELSE 0

\* Option<PathBuf>: null, or a path
SomeOf(r) == IF r.ok THEN Read(SomePath(r.val), r.next) ELSE Fail

ParseOptPath(t, i) ==
    LET j == SkipWs(t, i)
    IN  IF Peek(t, j) = 110
        THEN IF Word(t, j, <<110, 117, 108, 108>>) > 0 THEN Read(NonePath, j + 4) ELSE Fail
        ELSE SomeOf(ParsePath(t, j))

\* the position behind the digits that start at i
DigitsEnd(t, i) == FirstWhere(t, i, LAMBDA b : ~IsDigit(b))

RECURSIVE NumberOf(_)
NumberOf(digits) ==
    IF digits = <<>> THEN 0
    ELSE NumberOf(SubSeq(digits, 1, Len(digits) - 1)) * 10 + (digits[Len(digits)] - 48)

\* u64::MAX, 18446744073709551615
MaxU64Digits ==
    <<49, 56, 52, 52, 54, 55, 52, 52, 48, 55, 51, 55, 48, 57, 53, 53, 49, 54, 49, 53>>

\* two numerals of equal length: a <= b
RECURSIVE DigitsLeq(_, _)
DigitsLeq(a, b) ==
    IF a = <<>> THEN TRUE
    ELSE IF Head(a) # Head(b) THEN Head(a) < Head(b)
    ELSE DigitsLeq(Tail(a), Tail(b))

\* the usize a numeral without leading zero stands for: nine decimal digits
\* to each of its digits, from the right
RECURSIVE UsizeDigits(_)
UsizeDigits(digits) ==
    IF Len(digits) <= 9 THEN <<NumberOf(digits)>>
    ELSE <<NumberOf(SubSeq(digits, Len(digits) - 8, Len(digits)))>>
            \o UsizeDigits(SubSeq(digits, 1, Len(digits) - 9))

\* usize: deserialize_u64.  A numeral with a leading zero is no number; one
\* with a sign, a fraction or an exponent, or beyond u64, is no usize.
UsizeOf(digits, k) ==
    IF Len(digits) < 20 \/ (Len(digits) = 20 /\ DigitsLeq(digits, MaxU64Digits))
    THEN Read(UsizeDigits(digits), k)
    ELSE Fail

\* the numeral stands at j and ends before k
UsizeAt(t, j, k) ==
    IF k = j \/ Peek(t, k) \in {46, 101, 69} THEN Fail
    ELSE IF t[j] = 48 /\ k > j + 1 THEN Fail
    ELSE UsizeOf(SubSeq(t, j, k - 1), k)

ParseUsize(t, i) == UsizeAt(t, SkipWs(t, i), DigitsEnd(t, SkipWs(t, i)))

\* Vec<PathBuf>: deserialize_seq, an array of strings
RECURSIVE PathElements(_, _, _), PathBehind(_, _, _)
PathElements(t, i, acc) == PathBehind(t, acc, ParsePath(t, i))

\* r is the element read last
PathBehind(t, acc, r) ==
    LET m == SkipWs(t, r.next)
    IN  IF ~r.ok THEN Fail
        ELSE IF Peek(t, m) = 93 THEN Read(Append(acc, r.val), m + 1)
        ELSE IF Peek(t, m) = 44 /\ Peek(t, SkipWs(t, m + 1)) # 93
             THEN PathElements(t, m + 1, Append(acc, r.val))
        ELSE Fail

ParsePaths(t, i) ==
    LET j == SkipWs(t, i)
        k == SkipWs(t, j + 1)
    IN  IF Peek(t, j) # 91 THEN Fail
        ELSE IF Peek(t, k) = 93 THEN Read(<<>>, k + 1)
        ELSE PathElements(t, k, <<>>)

\* ignore_str behind the opening quote: escapes are looked at for their form
\* only
RECURSIVE IgnoreString(_, _)
IgnoreString(t, i) ==
    LET k == StringStop(t, i)
        b == Peek(t, k)
    IN  IF b = 34 THEN Read(<<>>, k + 1)
        ELSE IF b # 92 THEN Fail
        ELSE IF Peek(t, k + 1) = 117
             THEN IF Hex4(t, k + 2) >= 0 THEN IgnoreString(t, k + 6) ELSE Fail
        ELSE IF EscapeLetter(Peek(t, k + 1)) >= 0 THEN IgnoreString(t, k + 2)
        ELSE Fail

\* the digits from s on, one at least
IgnoreDigits(t, s) ==
    IF DigitsEnd(t, s) = s THEN Fail ELSE Read(<<>>, DigitsEnd(t, s))

\* ignore_exponent at the letter e: a sign or none, and digits
IgnoreExponent(t, e) ==
    IgnoreDigits(t, IF Peek(t, e + 1) \in {43, 45} THEN e + 2 ELSE e + 1)

\* the fraction's digits end before x: an exponent may follow
IgnoreBehindFraction(t, d, x) ==
    IF x = d + 1 THEN Fail
    ELSE IF Peek(t, x) \in {101, 69} THEN IgnoreExponent(t, x)
    ELSE Read(<<>>, x)

\* ignore_decimal at the point: digits, one at least
IgnoreDecimal(t, d) == IgnoreBehindFraction(t, d, DigitsEnd(t, d + 1))

\* the integer part stands at j and ends before k; a numeral with a leading
\* zero is no number
IgnoreBehindInteger(t, j, k) ==
    IF k = j \/ (t[j] = 48 /\ k > j + 1) THEN Fail
    ELSE IF Peek(t, k) = 46 THEN IgnoreDecimal(t, k)
    ELSE IF Peek(t, k) \in {101, 69} THEN IgnoreExponent(t, k)
    ELSE Read(<<>>, k)

\* ignore_integer
IgnoreInteger(t, j) == IgnoreBehindInteger(t, j, DigitsEnd(t, j))

\* a JSON number at i, read for its form: a minus sign or none, and the rest
IgnoreNumber(t, i) == IgnoreInteger(t, IF Peek(t, i) = 45 THEN i + 1 ELSE i)

\* ignore_value: any JSON value, read for its form
RECURSIVE IgnoreValue(_, _), IgnoreValueAt(_, _), IgnoreElements(_, _),
          IgnoredElement(_, _), IgnoreMembers(_, _), IgnoredKey(_, _), IgnoredMember(_, _)
IgnoreValue(t, i) == IgnoreValueAt(t, SkipWs(t, i))

IgnoreValueAt(t, j) ==
    IF Peek(t, j) = 110
    THEN IF Word(t, j, <<110, 117, 108, 108>>) > 0 THEN Read(<<>>, j + 4) ELSE Fail
    ELSE IF Peek(t, j) = 116
    THEN IF Word(t, j, <<116, 114, 117, 101>>) > 0 THEN Read(<<>>, j + 4) ELSE Fail
    ELSE IF Peek(t, j) = 102
    THEN IF Word(t, j, <<102, 97, 108, 115, 101>>) > 0 THEN Read(<<>>, j + 5) ELSE Fail
    ELSE IF Peek(t, j) = 45 \/ IsDigit(Peek(t, j)) THEN IgnoreNumber(t, j)
    ELSE IF Peek(t, j) = 34 THEN IgnoreString(t, j + 1)
    ELSE IF Peek(t, j) = 91
    THEN IF Peek(t, SkipWs(t, j + 1)) = 93 THEN Read(<<>>, SkipWs(t, j + 1) + 1)
         ELSE IgnoreElements(t, j + 1)
    ELSE IF Peek(t, j) = 123
    THEN IF Peek(t, SkipWs(t, j + 1)) = 125 THEN Read(<<>>, SkipWs(t, j + 1) + 1)
         ELSE IgnoreMembers(t, j + 1)
    ELSE Fail

IgnoreElements(t, i) == IgnoredElement(t, IgnoreValue(t, i))

\* r is the element read last
IgnoredElement(t, r) ==
    LET m == SkipWs(t, r.next)
    IN  IF ~r.ok THEN Fail
        ELSE IF Peek(t, m) = 93 THEN Read(<<>>, m + 1)
        ELSE IF Peek(t, m) = 44 THEN IgnoreElements(t, m + 1)
        ELSE Fail

IgnoreMembers(t, i) ==
    IF Peek(t, SkipWs(t, i)) = 34 THEN IgnoredKey(t, IgnoreString(t, SkipWs(t, i) + 1))
    ELSE Fail

\* key is the member's name: a colon and the value follow
IgnoredKey(t, key) ==
    IF key.ok /\ Peek(t, SkipWs(t, key.next)) = 58
    THEN IgnoredMember(t, IgnoreValue(t, SkipWs(t, key.next) + 1))
    ELSE Fail

\* r is the member's value
IgnoredMember(t, r) ==
    LET m == SkipWs(t, r.next)
    IN  IF ~r.ok THEN Fail
        ELSE IF Peek(t, m) = 125 THEN Read(<<>>, m + 1)
        ELSE IF Peek(t, m) = 44 THEN IgnoreMembers(t, m + 1)
        ELSE Fail

\* the fields of Progress in their order (progress.rs:56-63), by name
FieldNames ==
    << <<105, 110, 112, 117, 116, 95, 102, 105, 108, 101>>,
       <<111, 117, 116, 112, 117, 116, 95, 102, 105, 108, 101>>,
       <<116, 104, 114, 101, 97, 100, 115>>,
       <<112, 114, 111, 99, 101, 115, 115, 101, 100, 95, 102, 105, 108, 101, 115>>,
       <<99, 117, 114, 114, 101, 110, 116, 95, 112, 111, 115, 105, 116, 105, 111, 110>>,
       <<115, 97, 118, 101, 95, 112, 97, 116, 104>> >>

\* the value of field number n at position i
ParseField(n, t, i) ==
    IF n \in {1, 2} THEN ParsePath(t, i)
    ELSE IF n \in {3, 5} THEN ParseUsize(t, i)
    ELSE IF n = 4 THEN ParsePaths(t, i)
    ELSE ParseOptPath(t, i)

\* field number -> value, from the values read so far
ProgressOf(got) ==
    [input_file |-> got[1], output_file |-> got[2], threads |-> got[3],
     processed_files |-> got[4], current_position |-> got[5],
     save_path |-> IF 6 \in DOMAIN got THEN got[6] ELSE NonePath]

\* the number of the field a key names, 0 for a key that names none
FieldNumber(key) ==
    IF \E f \in 1..6 : FieldNames[f] = key
    THEN CHOOSE f \in 1..6 : FieldNames[f] = key
    ELSE 0

\* visit_map at a key: a known field is read once, another key's value is
\* ignored; at the closing brace every field but the Option has to be there
RECURSIVE Members(_, _, _), MemberNamed(_, _, _), MemberOf(_, _, _, _),
          MemberRead(_, _, _, _), MembersBehind(_, _, _)
Members(t, i, got) == MemberNamed(t, got, StringBody(t, i + 1, <<>>))

\* key is the member's name: a colon and the value follow
MemberNamed(t, got, key) ==
    IF ~key.ok \/ Peek(t, SkipWs(t, key.next)) # 58 THEN Fail
    ELSE MemberOf(t, got, FieldNumber(key.val), SkipWs(t, key.next) + 1)

\* the value of field n, or of no field of the struct, stands at i
MemberOf(t, got, n, i) ==
    IF n \in DOMAIN got THEN Fail
    ELSE MemberRead(t, got, n, IF n = 0 THEN IgnoreValue(t, i) ELSE ParseField(n, t, i))

\* r is the member's value
MemberRead(t, got, n, r) ==
    IF ~r.ok THEN Fail
    ELSE MembersBehind(t, SkipWs(t, r.next), IF n = 0 THEN got ELSE (n :> r.val) @@ got)

\* m is the position behind the member, now the fields read so far
MembersBehind(t, m, now) ==
    IF Peek(t, m) = 125
    THEN IF 1..5 \subseteq DOMAIN now THEN Read(ProgressOf(now), m + 1) ELSE Fail
    ELSE IF Peek(t, m) = 44 /\ Peek(t, SkipWs(t, m + 1)) = 34
         THEN Members(t, SkipWs(t, m + 1), now)
    ELSE Fail

ParseMap(t, i) ==
    IF Peek(t, SkipWs(t, i + 1)) = 34 THEN Members(t, SkipWs(t, i + 1), <<>>) ELSE Fail

\* visit_seq: the six fields in their order, each there
RECURSIVE Elements(_, _, _), ElementRead(_, _, _), ElementsBehind(_, _, _)
Elements(t, i, got) == ElementRead(t, got, ParseField(Len(got) + 1, t, i))

\* r is the element read last
ElementRead(t, got, r) ==
    IF ~r.ok THEN Fail ELSE ElementsBehind(t, SkipWs(t, r.next), Append(got, r.val))

\* m is the position behind the element, now the fields read so far
ElementsBehind(t, m, now) ==
    IF Len(now) = 6
    THEN IF Peek(t, m) = 93 THEN Read(ProgressOf(now), m + 1) ELSE Fail
    ELSE IF Peek(t, m) = 44 /\ Peek(t, SkipWs(t, m + 1)) # 93 THEN Elements(t, m + 1, now)
    ELSE Fail

ParseSeq(t, i) ==
    IF Peek(t, SkipWs(t, i + 1)) = 93 THEN Fail ELSE Elements(t, i + 1, <<>>)

\* r is the value read: nothing but whitespace may follow it
WholeText(t, r) ==
    IF r.ok /\ SkipWs(t, r.next) > Len(t)
    THEN [ok |-> TRUE, progress |-> r.val]
    ELSE [ok |-> FALSE, progress |-> <<>>]

\* a struct is read from an object or from an array
ParseStruct(t, j) ==
    IF Peek(t, j) = 123 THEN ParseMap(t, j)
    ELSE IF Peek(t, j) = 91 THEN ParseSeq(t, j)
    ELSE Fail

\* progress.rs:96: serde_json::from_str(&content): deserialize_struct, then
\* nothing but whitespace up to the end
from_str(t) == WholeText(t, ParseStruct(t, SkipWs(t, 1)))

NoFile == [exists |-> FALSE, text |-> <<>>]

\* progress.rs:81-89: the result and the file at the save path afterwards.
\* fs::write opens the file, which empties it, and writes the text: `how` is
\* "ok", "open_fails" or "write_fails".
save(p, file, how) ==
    IF ~p.save_path.some THEN [result |-> "Ok", file |-> file]
    ELSE LET content == to_string_pretty(p)
         IN  IF ~content.ok \/ how = "open_fails" THEN [result |-> "Err", file |-> file]
             ELSE IF how = "write_fails"
                  THEN [result |-> "Err", file |-> [exists |-> TRUE, text |-> <<>>]]
             ELSE [result |-> "Ok", file |-> [exists |-> TRUE, text |-> content.text]]

\* r is what from_str made of the text; progress.rs:98 re-attaches the path
Loaded(r, path) ==
    IF ~r.ok THEN [result |-> "Err", progress |-> <<>>]
    ELSE [result |-> "Ok", progress |-> [r.progress EXCEPT !.save_path = SomePath(path)]]

\* progress.rs:92-100: fs::read_to_string fails on a missing file and on one
\* that is not valid UTF-8
load(file, path) ==
    IF ~file.exists \/ ~Utf8Valid(file.text) THEN [result |-> "Err", progress |-> <<>>]
    ELSE Loaded(from_str(file.text), path)

\* the checkpoint paths: s, and the lone byte E9
SavePathChoices == {<<115>>, <<233>>}

\* the positions are 0 and 1000000005
ProgressChoices ==
    [input_file : PathChoices, output_file : {<<>>, <<233>>}, threads : {Usize(10)},
     processed_files : SeqsUpTo(PathChoices, MaxRecorded),
     current_position : {Usize(0), <<5, 1>>},
     save_path : {NonePath} \cup {SomePath(s) : s \in SavePathChoices}]

\* Progress::default() with a save path
EarlierProgress(s) ==
    [input_file |-> <<>>, output_file |-> <<>>, threads |-> Usize(10),
     processed_files |-> <<>>, current_position |-> Usize(0), save_path |-> SomePath(s)]

\* what the file at the save path holds before the save: nothing, the text
\* `not json`, an earlier checkpoint, and a checkpoint written by hand with
\* its fields in another order, a field the struct has not and no save_path
FileChoices(s) ==
    {NoFile,
     [exists |-> TRUE, text |-> <<110, 111, 116, 32, 106, 115, 111, 110>>],
     [exists |-> TRUE, text |-> to_string_pretty(EarlierProgress(s)).text],
     [exists |-> TRUE, text |-> <<123, 34, 110, 111, 116, 101, 34, 58, 32, 91, 49, 44, 32, 123, 34, 97, 34, 58, 32, 110, 117, 108, 108, 125, 93, 44, 32, 34, 99, 117, 114, 114, 101, 110, 116, 95, 112, 111, 115, 105, 116, 105, 111, 110, 34, 58, 32, 49, 44, 32, 34, 112, 114, 111, 99, 101, 115, 115, 101, 100, 95, 102, 105, 108, 101, 115, 34, 58, 32, 91, 34, 92, 117, 48, 48, 101, 57, 34, 93, 44, 10, 32, 34, 116, 104, 114, 101, 97, 100, 115, 34, 58, 32, 52, 44, 32, 34, 111, 117, 116, 112, 117, 116, 95, 102, 105, 108, 101, 34, 58, 32, 34, 111, 34, 44, 32, 34, 105, 110, 112, 117, 116, 95, 102, 105, 108, 101, 34, 58, 32, 34, 108, 34, 125>>]}

RoundTripInit ==
    \E p \in ProgressChoices : \E how \in {"ok", "open_fails", "write_fails"} :
        \E file \in FileChoices(p.save_path.path) :
            TrialInit([fn |-> "save_load", step |-> "save", p |-> p, how |-> how,
                       file |-> file, saved |-> "none",
                       loaded |-> [result |-> "none", progress |-> <<>>]])

\* p.save().await
RT_Save ==
    /\ trial.fn = "save_load"
    /\ trial.step = "save"
    /\ LET r == save(trial.p, trial.file, trial.how)
       IN  trial' = [trial EXCEPT !.step = "load", !.saved = r.result, !.file = r.file]
    /\ UNCHANGED <<mainVars, fsVars, progVars, psfVars, plfVars, mergeVars, chanVars,
                   outVars, sigVars, calls, fpfile, histVars>>

\* Progress::load(&s).await, s the save path of p
RT_Load ==
    /\ trial.fn = "save_load"
    /\ trial.step = "load"
    /\ trial' = [trial EXCEPT !.step = "done",
                              !.loaded = load(trial.file, trial.p.save_path.path)]
    /\ UNCHANGED <<mainVars, fsVars, progVars, psfVars, plfVars, mergeVars, chanVars,
                   outVars, sigVars, calls, fpfile, histVars>>

RoundTripNext == RT_Save \/ RT_Load

RoundTripSpec == RoundTripInit /\ [][RoundTripNext]_vars

\* ---------------------------------------------------------------------------
\* Reference definitions for the properties
\* ---------------------------------------------------------------------------
\* the newline-separated lines of a text; a last line without a newline counts
RECURSIVE SplitLines(_)
SplitLines(text) ==
    IF text = <<>> THEN <<>>
    ELSE IF \E i \in 1..Len(text) : text[i] = NL
         THEN LET i == CHOOSE k \in 1..Len(text) :
                           text[k] = NL /\ \A j \in 1..(k - 1) : text[j] # NL
              IN  <<SubSeq(text, 1, i - 1)>> \o SplitLines(SubSeq(text, i + 1, Len(text)))
         ELSE <<text>>

\* the trimmed, non-empty lines of a text
TrueLines(text) == {Trim(l) : l \in Range(SplitLines(text))} \ {<<>>}

\* the input files that can be read without an I/O error
ReadablePaths == {p \in Range(InputList) : files[p].io = "ok"}

\* the input files ingestion read to their end without an I/O error
IngestedPaths == emitted

\* every line of every file ingestion read
AllTrueLines == UNION {TrueLines(TextOf(files[p])) : p \in IngestedPaths}

\* the lines process_large_file hands on for a text, over all its batches
RECURSIVE IngestedLines(_)
IngestedLines(text) ==
    IF text = <<>> THEN {}
    ELSE LET buffer == read_until(text)
         IN  LineOfBuffer(buffer)
               \cup IngestedLines(SubSeq(text, Len(buffer) + 1, Len(text)))

\* what one uninterrupted run over the whole input list writes
UninterruptedLines == UNION {IngestedLines(TextOf(files[p])) : p \in ReadablePaths}

Completed == pc = "done" /\ exit = "completed"

Occurrences(seq, x) == Cardinality({i \in 1..Len(seq) : seq[i] = x})

\* ---------------------------------------------------------------------------
\* Properties
\* ---------------------------------------------------------------------------
\* C1: once a run has written its output, no line occurs twice in it and every
\* distinct trimmed, non-empty line of the input files that were read occurs
\* in it exactly once.
C1_EveryLineExactlyOnce ==
    Completed =>
        /\ \A l \in DOMAIN output : output[l] = 1
        /\ \A l \in AllTrueLines : l \in DOMAIN output /\ output[l] = 1

\* C2: in a completed run, every trimmed non-empty line of every input file
\* that ingestion read without an I/O error is in the output, whether or not
\* the file's last line ends with a newline.
C2_Completeness ==
    Completed =>
        \A p \in IngestedPaths : TrueLines(TextOf(files[p])) \subseteq DOMAIN output

\* C3: a resumed run never opens, counts, ingests or records again a file
\* the loaded checkpoint already records.
C3_ResumeSkipsProcessed ==
    mode = "resume" =>
        \A p \in Range(loaded) :
            /\ p \notin touched
            /\ Occurrences(progress.processed_files, p) = 1

\* C4: a resumed run that no shutdown request cut short writes the set of lines
\* one uninterrupted fresh run over the whole input list writes; a fresh run
\* writes that same set.
C4_ResumeEquivalence ==
    (Completed /\ ~shutdown_requested) => DOMAIN output = UninterruptedLines

\* a resumed run from a checkpoint recording a non-empty prefix has written a
\* non-empty output
C4_Witness ==
    /\ mode = "resume"
    /\ Len(loaded) >= 1
    /\ Completed /\ ~shutdown_requested
    /\ Cardinality(DOMAIN output) >= 2

\* C5: a path is in processed_files only if the file was read to its end
\* without error, with process_single_file and with FileProcessor::process_file.
C5_NoPartialFiles == Range(progress.processed_files) \subseteq fullyRead

\* process went past a file whose read failed and recorded another one
C5_Witness ==
    /\ mode = "merge"
    /\ pc = "merge_start"
    /\ \E p \in Paths : files[p].io = "readerr" /\ p \in touched
    /\ Len(progress.processed_files) >= 1

\* C6: a file recorded by this run has had all its lines handed to the
\* Aggregator channel before it was recorded.
C6_EmittedBeforeRecorded ==
    mode \in {"merge", "resume"} =>
        \A i \in (Len(loaded) + 1)..Len(progress.processed_files) :
            progress.processed_files[i] \in emitted

\* C7: in a merge run and in a resume run, after each file completion the
\* checkpoint on durable storage equals the in-memory ProgressState (as long
\* as no write of the checkpoint file failed).
C7_CheckpointDurable ==
    ( /\ mode \in {"merge", "resume"}
      /\ ~wlock
      /\ ~saveFailed
      /\ Len(progress.processed_files) > Len(loaded) )
    => disk = Snapshot(progress)

\* the number of lines of a text: its newlines, and a last line without one
NumLines(text) ==
    Cardinality({i \in 1..Len(text) : text[i] = NL})
      + (IF text # <<>> /\ text[Len(text)] # NL THEN 1 ELSE 0)

RECURSIVE SumNumLines(_)
SumNumLines(paths) ==
    IF paths = <<>> THEN 0
    ELSE NumLines(TextOf(files[Head(paths)])) + SumNumLines(Tail(paths))

\* C8: in a merge run and in a resume run, whenever the progress write lock is
\* free, current_position is the sum of the line counts of the files in
\* processed_files.
C8_PositionInvariant ==
    (mode \in {"merge", "resume"} /\ ~wlock) =>
        progress.current_position = SumNumLines(progress.processed_files)

\* a resumed run has recorded a further file of several lines
C8_Witness ==
    /\ mode = "resume"
    /\ Len(loaded) >= 1
    /\ ~wlock
    /\ Len(progress.processed_files) > Len(loaded)
    /\ progress.current_position >= 4

\* C9: once the handler of an interrupt has run, its task to its end or its
\* closure to the panic of tokio::spawn, in a merge run or a resume run, the
\* ShutdownFlag is set.
C9_InterruptSetsFlag == (handled >= 1 \/ sig = "panicked") => shutdown_requested

\* a step in which a worker starts a new file: process_single_file passes its
\* entry check, or merge_and_deduplicate hands a file to process_large_file
StartsFile ==
    \/ pc = "psf_check" /\ pc' = "psf_detect"
    \/ pc = "files_loop" /\ pc' = "plf_open"

\* C10: once the ShutdownFlag is set no worker starts a new file, in the
\* per-file loop of process and in merge_and_deduplicate.
C10_NoStartAfterShutdown == [][shutdown_requested => ~StartsFile]_vars

\* C11: once an interrupt has asked for shutdown, process returns and the
\* command's run is over, whatever the interleaving of the handler's
\* checkpoint save (read lock) with the main task's file-completion update
\* (write lock).
C11_ShutdownLiveness == (interrupts >= 1) ~> (pc = "done")

\* a resumed run that an interrupt stopped at the loop's shutdown check
C11_Witness ==
    /\ pc = "done"
    /\ exit = "shutdown"
    /\ handled >= 1
    /\ Len(progress.processed_files) > Len(loaded)

\* the lines ingestion extracts from the readable files a progress records
RecordedLines ==
    UNION {IngestedLines(TextOf(files[p])) :
             p \in {q \in Range(progress.processed_files) : files[q].io = "ok"}}

\* C12: a command that went through process and has at least one file
\* recorded when process returns, be it at the end of the merge, at a shutdown
\* check or with a fatal error, has written an output file holding the
\* recorded files' lines, and a checkpoint.
C12_PartialOutputOnExit ==
    (mode \in {"merge", "resume"} /\ pc = "done" /\ exit # "none"
       /\ Len(progress.processed_files) >= 1)
    => /\ outExists
       /\ RecordedLines \subseteq DOMAIN output
       /\ disk.exists

\* the paths this run added to processed_files
NewlyRecorded ==
    {progress.processed_files[i] :
       i \in (Len(loaded) + 1)..Len(progress.processed_files)}

\* C13: in a command whose process ran to its end with no shutdown request, a
\* file that could not be opened or read is not recorded by the run, and every
\* readable file of the input list is recorded and has all its lines in the
\* output.
C13_PerFileErrorsSkipped ==
    (mode \in {"merge", "resume"} /\ Completed /\ ~shutdown_requested)
    => \A p \in Range(InputList) :
          /\ files[p].io # "ok" => p \notin NewlyRecorded
          /\ files[p].io = "ok" =>
                /\ p \in NewlyRecorded
                /\ TrueLines(TextOf(files[p])) \subseteq DOMAIN output

\* C14: a command whose process returned an error (memory information
\* unavailable, output file not creatable or not writable, error.log not
\* openable) ends in failure, for merge as for resume.
C14_FatalErrorsFail ==
    (mode \in {"merge", "resume"} /\ exit = "error" /\ cmd_exit # "none")
    => cmd_exit = "failure"

\* the checkpoint records a file that is no longer there
CheckpointMismatch == \E p \in Range(loaded) : files[p].io = "missing"

\* C15: a resume command whose checkpoint file is missing, is corrupted or
\* records input files that no longer match opens no input file, creates no
\* output file and does not end in success.
C15_ResumeErrorsAbort ==
    (mode = "resume" /\ (ckpt # "ok" \/ CheckpointMismatch))
    => /\ touched = {}
       /\ ~outExists
       /\ cmd_exit # "success"

\* C16: a merge command whose configuration Config::validate rejects for a
\* thread count outside 1..100, a path missing from the configuration, equal
\* paths or an unwritable output directory opens no input file and does not
\* end in success.
C16_ConfigErrorsAbort ==
    (mode = "merge"
       /\ validate(config, list # "missing") \in
              {"InvalidThreadCount", "MissingInputFiles", "MissingOutputFiles",
               "InputOutputPathsEqual", "OutputDirectoryNotWritable"})
    => /\ touched = {}
       /\ cmd_exit # "success"

\* C17: at every moment the lines the Aggregator holds together with the
\* batches still in the channel are the union of all batches handed to the
\* channel, and the set the Aggregator returns is that union.
C17_NoBatchLost ==
    /\ (agg # "none") => final_set \cup UNION Range(chan) = UNION sent
    /\ (agg = "returned") => (chan = <<>> /\ final_set = UNION sent)

\* the Aggregator returned after two files sent at least two different batches
C17_Witness ==
    /\ agg = "returned"
    /\ Cardinality(sent) >= 2
    /\ Cardinality(emitted) >= 2
    /\ Cardinality(final_set) >= 2

\* C18: once the channel and the writer task exist, the producer gets every
\* batch into the channel, the Sender is dropped, the receive loop ends with
\* the final set handed back, and the main task goes on to the writer stage
\* (File::create and the writes, or the error of File::create).
C18_PipelineTermination ==
    (agg = "recv") ~> (agg = "returned" /\ pc \in {"write", "finish", "done"})

\* the writer stage ran after the producer had to wait on a full channel:
\* three batches went through a channel of capacity ChannelCap
C18_Witness ==
    /\ agg = "returned"
    /\ pc = "done"
    /\ outExists
    /\ batch_size = 0
    /\ total_lines_processed >= ChannelCap + 2

\* C19: the channel never buffers more batches than its capacity, and while
\* it is full a producer that holds a batch to send stays where it is and
\* hands nothing to the channel; only a receive of the Aggregator makes room.
C19_Backpressure ==
    /\ [](Len(chan) <= ChannelCap)
    /\ [][(pc \in {"plf_send", "plf_tail"} /\ Len(chan) = ChannelCap)
            => (pc' = pc /\ sent' = sent /\ Len(chan') <= Len(chan))]_vars

\* the producer holds a batch in front of a full channel
C19_Witness ==
    /\ pc = "plf_send"
    /\ current_set # {}
    /\ Len(chan) = ChannelCap
    /\ agg = "recv"

\* the batches a producer holds or has handed to the channel
Batches == {current_set} \cup Range(chan) \cup sent

\* C20 as stated: for every capacity, 0 included, every batch a producer holds
\* or hands to the channel has at most that many lines.
C20_BatchWithinCapacity == \A b \in Batches : Cardinality(b) <= batch_size

\* C20: for every capacity of at least 1 every batch a producer holds or hands
\* to the channel has at most that many lines; with capacity 0 a batch has at
\* most one line.
C20_BatchBound ==
    \A b \in Batches :
        Cardinality(b) <= (IF batch_size >= 1 THEN batch_size ELSE 1)

\* a batch filled to a capacity of at least 1 was handed to the channel and
\* the file went on filling the next one
C20_Witness ==
    /\ batch_size >= 1
    /\ \E b \in sent : Cardinality(b) = batch_size
    /\ current_set # {}

\* C21: from one state of a run to the next the Aggregator's set loses no
\* line, and it changes only in a step of the writer task, which folds the
\* batch at the head of the channel into it while the main task stays where
\* it is; once the task has returned the set no longer changes.
C21_DedupSetGrowsOnly ==
    [][/\ final_set \subseteq final_set'
       /\ (final_set' # final_set) =>
             /\ agg = "recv" /\ agg' = "recv"
             /\ chan # <<>>
             /\ final_set' = final_set \cup Head(chan)
             /\ chan' = Tail(chan)
             /\ pc' = pc /\ current_set' = current_set]_vars

\* the writer task has folded a second batch into a set that already held a
\* line, and another batch is waiting
C21_Witness ==
    /\ agg = "recv"
    /\ Cardinality(final_set) >= 2
    /\ \E b \in sent : b # {} /\ b \subseteq final_set /\ b # final_set
    /\ chan # <<>>

\* C22: at any moment at most PARALLEL_FILES calls of process_large_file are
\* under way, however many files optimized_files holds.
C22_BoundedFanOut == Cardinality(in_flight) <= PARALLEL_FILES

\* a file beyond the first PARALLEL_FILES ones is being ingested
C22_Witness ==
    /\ Len(optimized) > PARALLEL_FILES
    /\ in_flight = {midx}
    /\ midx > PARALLEL_FILES
    /\ pc = "plf_read"

\* what C23 says of a Progress that was saved to its save path and loaded
\* from it
RoundTrips ==
    /\ trial.loaded.result = "Ok"
    /\ trial.loaded.progress = trial.p

\* C23: for every Progress whose save path is s, on a file system that takes
\* the write, loading s after its save gives back every field of it, the save
\* path included.
C23_RoundTripEvery ==
    (trial.step = "done" /\ trial.p.save_path.some /\ trial.how = "ok") => RoundTrips

\* ---------------------------------------------------------------------------
\* The lock of the progress state (app_state.rs:13, tokio::sync::RwLock)
\* ---------------------------------------------------------------------------
\* a file-completion update is half applied: the path is pushed (core.rs:308)
\* and its line count is not yet added (core.rs:309)
HalfApplied == pc = "psf_addpos"

\* C24: while the signal handler's save_progress holds the progress state (it
\* reads and persists it between app_state.rs:43 and :45), no file-completion
\* update is half applied, and the write guard and a read guard are never
\* held together.
C24_SaveSeesWholeUpdate ==
    /\ sig = "save" => ~HalfApplied
    /\ ~(wlock /\ readers # {})

\* the handler's save is issued while the worker is in the middle of a
\* file-completion update, and waits for the write guard
C24_Witness ==
    /\ sig = "save_lock"
    /\ HalfApplied
    /\ wlock

\* a task is at an await on file I/O: the worker's progress.save().await
\* (core.rs:310), the handler's progress.save().await (app_state.rs:44), the
\* metadata futures of validate_and_collect_metadata (core.rs:107-109)
WorkerAwaitsSave == pc = "psf_save"
HandlerAwaitsSave == sig = "save"
MainAwaitsMetadata == pc = "collect"

\* C25: no task is at an await on file I/O while it holds the write guard or
\* a read guard of the progress state.
C25_NoLockAcrossAwait ==
    /\ ~(WorkerAwaitsSave /\ wlock)
    /\ ~(HandlerAwaitsSave /\ "sig" \in readers)
    /\ ~(MainAwaitsMetadata /\ "main" \in readers)

\* ---------------------------------------------------------------------------
\* EncodingHandler::detect_or_default (encoding/mod.rs:64-133) and
\* EncodingDetector::detect_file (encoding/detector.rs:34-63) run on their own
\* ---------------------------------------------------------------------------
\* A file of a detection run: pad bytes 'a' followed by the bytes of tail, what
\* chardetng guesses for its sample, and how I/O on it goes:
\*   "ok"       every operation succeeds
\*   "missing"  metadata, and every other operation, fails
\*   "noopen"   metadata succeeds, File::open fails
\*   "noread"   metadata and File::open succeed, the read fails
\* metadata.len()
FileLen(f) == f.pad + Len(f.tail)

\* the first n bytes of the file, all of them when it has fewer
FileHead(f, n) ==
    [i \in 1..Min(n, FileLen(f)) |-> IF i <= f.pad THEN 97 ELSE f.tail[i - f.pad]]

DetOk(enc) == [ok |-> TRUE, encoding |-> enc]
DetErr == [ok |-> FALSE, encoding |-> "none"]

\* a detect_file that gives up when the guess does not validate
try_detect_file_confident(f) ==
    IF f.io = "missing" THEN DetErr
    ELSE IF NeedsSample(FileLen(f)) /\ f.io # "ok" THEN DetErr
    ELSE IF NeedsSample(FileLen(f))
            /\ ~validate_encoding_with_sample(
                   read_sample(FileHead(f, DETECTION_SAMPLE_SIZE)), f.guess)
         THEN DetErr
    ELSE DetOk(detect_file_at(FileLen(f), FileHead(f, DETECTION_SAMPLE_SIZE), f.guess))

\* EncodingDetector::detect_file (detector.rs:34-63) with its `?`: the
\* metadata call fails, or the sample is needed and read_sample fails
try_detect_file(f) ==
    IF f.io = "missing" THEN DetErr
    ELSE IF NeedsSample(FileLen(f)) /\ f.io # "ok" THEN DetErr
    ELSE DetOk(detect_file_at(FileLen(f), FileHead(f, DETECTION_SAMPLE_SIZE), f.guess))

\* EncodingDetector::validate_encoding (detector.rs:124-127): Ok(valid) or Err
validate_encoding(f, enc) ==
    IF f.io # "ok" THEN [ok |-> FALSE, valid |-> FALSE]
    ELSE [ok |-> TRUE,
          valid |-> validate_encoding_with_sample(
                        read_sample(FileHead(f, DETECTION_SAMPLE_SIZE)), enc)]

\* encoding/mod.rs:102-127: the first encoding of the sequence for which
\* validate_encoding answers Ok(true), windows-1252 when there is none
RECURSIVE try_sequence(_, _)
try_sequence(encodings, f) ==
    IF encodings = <<>> THEN WINDOWS_1252
    ELSE LET v == validate_encoding(f, Head(encodings))
         IN  IF v.ok /\ v.valid THEN Head(encodings)
             ELSE try_sequence(Tail(encodings), f)

\* EncodingStrategy (encoding/strategies.rs:16-26)
AutoDetect == [kind |-> "AutoDetect", enc |-> "none", encodings |-> <<>>]
ForceEncoding(enc) == [kind |-> "ForceEncoding", enc |-> enc, encodings |-> <<>>]
TrySequence(encodings) == [kind |-> "TrySequence", enc |-> "none", encodings |-> encodings]

\* EncodingHandler::detect_or_default (encoding/mod.rs:64-133)
detect_or_default(strategy, f) ==
    IF strategy.kind = "AutoDetect" THEN try_detect_file(f)
    ELSE IF strategy.kind = "ForceEncoding" THEN DetOk(strategy.enc)
    ELSE DetOk(try_sequence(strategy.encodings, f))

Encodings == {UTF_8, WINDOWS_1252}

\* the ends of the files of a detection run: nothing, a letter, a NUL, a
\* control character, a lone Latin-1 byte, a two-byte UTF-8 character, a byte
\* order mark alone, before a letter and before a lone Latin-1 byte, a NUL
\* before a letter, a four-byte UTF-8 character, an overlong form, the
\* windows-1252 no-break space and low quotation mark, a UTF-16 byte order
\* mark before a letter and before half a surrogate pair
TailChoices ==
    {<<>>, <<97>>, <<0>>, <<1>>, <<233>>, <<195, 169>>, <<239, 187, 191>>,
     <<239, 187, 191, 97>>, <<239, 187, 191, 233>>, <<0, 97>>,
     <<240, 159, 152, 128>>, <<224, 128, 128>>, <<160>>, <<130>>,
     <<255, 254, 97, 0>>, <<254, 255, 216, 61>>}

\* files whose sample is the whole file: no pad, and a pad that with one NUL
\* after it has just above and exactly 5% of NULs
SmallFiles ==
    [pad : {0, 18, 19}, tail : TailChoices, guess : Encodings,
     io : {"ok", "missing", "noopen", "noread"}]

\* files above the size ceiling, the first of them by one byte
HugeFiles ==
    [pad : {MAX_DETECTION_FILE_SIZE}, tail : TailChoices \ {<<>>}, guess : Encodings,
     io : {"ok", "missing", "noopen", "noread"}]

\* a TrySequence run reads the sample whatever the file's size; it is given
\* the files whose sample is the whole file
DetectChoices ==
    ({AutoDetect} \cup {ForceEncoding(e) : e \in Encodings}) \X (SmallFiles \cup HugeFiles)
    \cup {TrySequence(s) : s \in SeqsUpTo(Encodings, 2)} \X SmallFiles

DetectInit ==
    \E c \in DetectChoices :
        TrialInit([fn |-> "detect", step |-> "call", strategy |-> c[1],
                   file |-> c[2], result |-> DetErr])

\* handler.detect_or_default(path).await
DT_Call ==
    /\ trial.fn = "detect"
    /\ trial.step = "call"
    /\ trial' = [trial EXCEPT !.step = "done",
                              !.result = detect_or_default(trial.strategy, trial.file)]
    /\ UNCHANGED <<mainVars, fsVars, progVars, psfVars, plfVars, mergeVars,
                   chanVars, outVars, sigVars, calls, fpfile, histVars>>

DetectNext == DT_Call

DetectSpec == DetectInit /\ [][DetectNext]_vars

\* every filesystem operation on the file succeeds
Readable(f) == f.io = "ok"

\* C26: under every strategy detect_or_default returns an encoding for a
\* readable file, and an error only for a file on which a filesystem
\* operation fails.
C26_DetectionTotal ==
    trial.step = "done" =>
        /\ Readable(trial.file) => trial.result.ok
        /\ trial.result.ok => trial.result.encoding \in Encodings
        /\ ~trial.result.ok => ~Readable(trial.file)

\* auto-detection of a readable file whose guess does not validate and is
\* not what the heuristic answers has returned an encoding
C26_Witness ==
    /\ trial.step = "done"
    /\ trial.strategy = AutoDetect
    /\ trial.file = [pad |-> 0, tail |-> <<0, 97>>, guess |-> WINDOWS_1252, io |-> "ok"]
    /\ trial.result = DetOk(UTF_8)

\* the sample detect_file reads of the file of the run
TrialSample == read_sample(FileHead(trial.file, DETECTION_SAMPLE_SIZE))

\* the guess validates on the sample: decoding gives no error, at most 5% of
\* the characters are NUL, and some character is an ASCII letter, digit,
\* punctuation mark or white space
GuessValidates(sample, guess) ==
    LET text == Decode(sample, guess)
        chars == Cardinality(CharStarts(text))
        nulls == Cardinality({i \in 1..Len(text) : text[i] = 0})
    IN  /\ ~HadErrors(sample, guess)
        /\ nulls * 100 <= 5 * chars
        /\ \E c \in CharsOf(text) :
               \/ c \in (48..57) \cup (65..90) \cup (97..122)
               \/ c \in (33..47) \cup (58..64) \cup (91..96) \cup (123..126)
               \/ IsWhite(c)

\* the heuristic answer C27 names: UTF-8 for a sample with a UTF-8 byte order
\* mark or that is valid UTF-8, else the legacy default when a byte >= 0x80
\* is present
HeuristicAnswers(sample) ==
    IF HasUtf8Bom(sample) \/ Utf8Valid(sample) THEN {UTF_8}
    ELSE IF \E i \in 1..Len(sample) : sample[i] >= 128 THEN {WINDOWS_1252}
    ELSE Encodings

\* C27: detect_file returns UTF-8 for an empty file and windows-1252, without
\* reading a sample, for a file above the size ceiling; for any other file it
\* returns the guess when the guess validates on the sample and the heuristic
\* answer when it does not.
C27_DecisionChain ==
    (trial.step = "done" /\ trial.strategy = AutoDetect /\ trial.file.io # "missing") =>
        LET f == trial.file
            r == trial.result
        IN  /\ FileLen(f) = 0 => r = DetOk(UTF_8)
            /\ FileLen(f) > MAX_DETECTION_FILE_SIZE => r = DetOk(WINDOWS_1252)
            /\ (FileLen(f) > 0 /\ FileLen(f) <= MAX_DETECTION_FILE_SIZE /\ Readable(f)) =>
                  /\ GuessValidates(TrialSample, f.guess) => r = DetOk(f.guess)
                  /\ ~GuessValidates(TrialSample, f.guess) =>
                        r.ok /\ r.encoding \in HeuristicAnswers(TrialSample)

\* a sample with just above 5% of NULs, guessed windows-1252: the guess is
\* rejected and the heuristic answers UTF-8
C27_Witness ==
    /\ trial.step = "done"
    /\ trial.strategy = AutoDetect
    /\ trial.file = [pad |-> 18, tail |-> <<0>>, guess |-> WINDOWS_1252, io |-> "ok"]
    /\ ~GuessValidates(TrialSample, WINDOWS_1252)
    /\ trial.result = DetOk(UTF_8)

\* the whole content of the file is valid UTF-8: the pad is ASCII and the
\* tail starts at a character boundary
WholeUtf8(f) == Utf8Valid(f.tail)

\* C28: detect_file returns UTF-8 for every readable file whose whole content
\* is valid UTF-8, whatever its size (chardetng's guess for such a file being
\* UTF-8).
C28_Utf8DetectedAsUtf8 ==
    (/\ trial.step = "done"
     /\ trial.strategy = AutoDetect
     /\ Readable(trial.file)
     /\ WholeUtf8(trial.file)
     /\ trial.file.guess = UTF_8)
    => trial.result = DetOk(UTF_8)

\* ---------------------------------------------------------------------------
\* optimize_processing_order (core.rs:447-471) run on its own
\* ---------------------------------------------------------------------------
\* file sizes on both sides of the two limits of the optimizer, and of the
\* decimal and the binary gigabyte
SizeChoices ==
    {0, 5, SMALL_LIMIT - 1, SMALL_LIMIT, 1000000000, MEDIUM_LIMIT - 1,
     MEDIUM_LIMIT, 1073741824}

\* the lists of (path, size) pairs: the i-th pair has path i
PairLists ==
    {[i \in 1..Len(sizes) |-> <<i, sizes[i]>>] : sizes \in SeqsUpTo(SizeChoices, MaxListed)}

OptimizeInit ==
    \E l \in PairLists :
        TrialInit([fn |-> "optimize", step |-> "call", files |-> l, result |-> <<>>])

\* optimize_processing_order(files).await
OPT_Call ==
    /\ trial.fn = "optimize"
    /\ trial.step = "call"
    /\ trial' = [trial EXCEPT !.step = "done",
                              !.result = optimize_processing_order(trial.files)]
    /\ UNCHANGED <<mainVars, fsVars, progVars, psfVars, plfVars, mergeVars,
                   chanVars, outVars, sigVars, calls, fpfile, histVars>>

OptimizeNext == OPT_Call

OptimizeSpec == OptimizeInit /\ [][OptimizeNext]_vars

\* the size the list gives for the path at position i of the result
SizeAt(i) == trial.files[trial.result[i]][2]

\* the two limits C29 names, 100 MB and 1 GB, in decimal and in binary units
\* (and 1 GB as a thousand times 2^20 bytes)
LimitReadings == {100000000, 104857600, 1000000000, 1048576000, 1073741824}

\* C29: the result of optimize_processing_order is a permutation of the paths
\* of the list; in it every file of at least 1 GB comes before every file of
\* at least 100 MB and less than 1 GB, every such file before every file of
\* less than 100 MB, and no file comes before a strictly larger one.
C29_OrderOptimizer ==
    trial.step = "done" =>
        LET n == Len(trial.files)
        IN  /\ Len(trial.result) = n
            /\ Range(trial.result) = 1..n
            /\ \A i, j \in 1..n :
                  i < j =>
                     /\ SizeAt(i) >= SizeAt(j)
                     /\ \A limit \in LimitReadings :
                           ~(SizeAt(j) >= limit /\ SizeAt(i) < limit)

\* a list given smallest first, one file in each group, came back reversed
C29_Witness ==
    /\ trial.step = "done"
    /\ trial.files = << <<1, 5>>, <<2, SMALL_LIMIT>>, <<3, MEDIUM_LIMIT>> >>
    /\ trial.result = <<3, 2, 1>>

\* every save of this run fails: the Progress has a save path and the
\* checkpoint file cannot be written
EverySaveFails == progress.save_path /\ ckptWrite # "ok"

\* C30: a file-completion update whose save fails leaves the in-memory
\* ProgressState as it was before the update, in process_single_file and in
\* add_processed_file; so in a run in which every save fails, processed_files
\* and current_position are, outside an update, what they were at the start.
C30_UpdateAllOrNothing ==
    (EverySaveFails /\ ~wlock) =>
        /\ progress.processed_files = loaded
        /\ progress.current_position = disk.current_position

====
